---- MODULE Spec2Model ----
(***************************************************************************)
(* A model of the height-triggered state upgrade of fendermint:           *)
(*   - the UpgradeScheduler registry (add / lookup per block),             *)
(*   - the patch registered by store_missing_validator_changes            *)
(*     (fendermint/app/src/cmd/upgrades/upgrade01.rs), step by step,       *)
(*   - parse_logs and the hex conversions it and the patch rely on.        *)
(* Byte strings are sequences of integers 0..255; hex text is a TLA+       *)
(* string read character by character.                                     *)
(***************************************************************************)
EXTENDS Integers, Sequences, FiniteSets, TLC

(***************************************************************************)
(* Results: anyhow::Result<T>.                                             *)
(***************************************************************************)
Ok(v) == [ok |-> TRUE, value |-> v, err |-> "none"]

Err(e) == [ok |-> FALSE, value |-> <<>>, err |-> e]

(***************************************************************************)
(* hex::decode and hex::encode.                                            *)
(***************************************************************************)
CharAt(s, i) == SubSeq(s, i, i)

\* hex::decode's value of one character: both cases are accepted, anything
\* else is invalid (-1).
val(c) ==
    CASE c = "0" -> 0 [] c = "1" -> 1 [] c = "2" -> 2 [] c = "3" -> 3
      [] c = "4" -> 4 [] c = "5" -> 5 [] c = "6" -> 6 [] c = "7" -> 7
      [] c = "8" -> 8 [] c = "9" -> 9
      [] c = "a" -> 10 [] c = "b" -> 11 [] c = "c" -> 12
      [] c = "d" -> 13 [] c = "e" -> 14 [] c = "f" -> 15
      [] c = "A" -> 10 [] c = "B" -> 11 [] c = "C" -> 12
      [] c = "D" -> 13 [] c = "E" -> 14 [] c = "F" -> 15
      [] OTHER -> -1

\* hex::decode: an odd length is refused first, then any invalid character;
\* otherwise one byte per pair of characters.
hex_decode(s) ==
    IF Len(s) % 2 # 0 THEN Err("OddLength")
    ELSE IF \E i \in 1..Len(s) : val(CharAt(s, i)) < 0
         THEN Err("InvalidHexCharacter")
    ELSE Ok([i \in 1..(Len(s) \div 2) |->
                16 * val(CharAt(s, 2 * i - 1)) + val(CharAt(s, 2 * i))])

HEX_CHARS_LOWER == "0123456789abcdef"

RECURSIVE hex_encode(_)
\* hex::encode: two lower-case characters per byte.
hex_encode(bytes) ==
    IF bytes = <<>> THEN ""
    ELSE CharAt(HEX_CHARS_LOWER, (Head(bytes) \div 16) + 1)
         \o CharAt(HEX_CHARS_LOWER, (Head(bytes) % 16) + 1)
         \o hex_encode(Tail(bytes))

\* str::starts_with("0x")
starts_with_0x(s) == Len(s) >= 2 /\ SubSeq(s, 1, 2) = "0x"

\* a strip that takes one character away
strip_prefix_0x_short(s) == SubSeq(s, 2, Len(s))

\* str::strip_prefix("0x").unwrap(), used only when starts_with_0x holds
strip_prefix_0x(s) == SubSeq(s, 3, Len(s))

(***************************************************************************)
(* Compiled-in constants of upgrade01.rs.                                  *)
(***************************************************************************)
CONFIGURATION_CHANGE_TOPIC ==
    "1c593a2b803c3f9038e8b6743ba79fbc4276d2770979a01d2768ed12bea3243f"

topdown_height == 1531770

topdown_hash_hex ==
    "768c3521bf3b9003f3bca8c5aad59ee15639843677eed3278954179bfb4d9907"

\* the zero address in place of the gateway's
gateway_addr_zero == "0x0000000000000000000000000000000000000000"

gateway_addr == "0x77aa40b105843728088c0132e43fc44348881da8"

\* a list with a gap: the blobs numbered 0x12, 0x13 and 0x15
raw_configuration_changes_gap ==
    <<"0x00000000000000000000000000000000000000000000000000000000000000030000000000000000000000007e6bcac9b600394ea1c7c38ea72cc56f57374c870000000000000000000000000000000000000000000000000000000000000080000000000000000000000000000000000000000000000000000000000000001200000000000000000000000000000000000000000000000000000000000000c0000000000000000000000000000000000000000000000000000000000000004000000000000000000000000000000000000000000000000000000000000000010000000000000000000000000000000000000000000000000000000000000041045197627a4a7f89458469255afb8711ab4c7bc4a76281376cb361c29bd0d9626758d47feadf43d77f843725cbad419e655d8689369c1ce59ccdaa67d47bd0ddf700000000000000000000000000000000000000000000000000000000000000",
      "0x0000000000000000000000000000000000000000000000000000000000000003000000000000000000000000bf20b7664fefb791a1dbb9a9308e1573063113c60000000000000000000000000000000000000000000000000000000000000080000000000000000000000000000000000000000000000000000000000000001300000000000000000000000000000000000000000000000000000000000000c0000000000000000000000000000000000000000000000000000000000000004000000000000000000000000000000000000000000000000000000000000000010000000000000000000000000000000000000000000000000000000000000041046ed27e5db71c4e7ec3b4498ee06913a59183e5c87f169652c92e7cc042f629088ef949c488135055722b8237009e7a77f4337185cbc89a6be60c0a63cfc72a2e00000000000000000000000000000000000000000000000000000000000000",
      "0x0000000000000000000000000000000000000000000000000000000000000003000000000000000000000000e8e8ed5fd65a10200971c3e1e731c1aa49e994b50000000000000000000000000000000000000000000000000000000000000080000000000000000000000000000000000000000000000000000000000000001500000000000000000000000000000000000000000000000000000000000000c00000000000000000000000000000000000000000000000000000000000000040000000000000000000000000000000000000000000000000000000000000000100000000000000000000000000000000000000000000000000000000000000410454d737a8759eafadcf00a45708a8d602942ff86d22f0e312a40d32dfab30b665e324a045ef3871d0fa448764317f783a3185bc5541c0c141fdea96f971dda0fb00000000000000000000000000000000000000000000000000000000000000">>

raw_configuration_changes ==
    <<
      "0x00000000000000000000000000000000000000000000000000000000000000030000000000000000000000007e6bcac9b600394ea1c7c38ea72cc56f57374c870000000000000000000000000000000000000000000000000000000000000080000000000000000000000000000000000000000000000000000000000000001200000000000000000000000000000000000000000000000000000000000000c0000000000000000000000000000000000000000000000000000000000000004000000000000000000000000000000000000000000000000000000000000000010000000000000000000000000000000000000000000000000000000000000041045197627a4a7f89458469255afb8711ab4c7bc4a76281376cb361c29bd0d9626758d47feadf43d77f843725cbad419e655d8689369c1ce59ccdaa67d47bd0ddf700000000000000000000000000000000000000000000000000000000000000",
      "0x0000000000000000000000000000000000000000000000000000000000000003000000000000000000000000bf20b7664fefb791a1dbb9a9308e1573063113c60000000000000000000000000000000000000000000000000000000000000080000000000000000000000000000000000000000000000000000000000000001300000000000000000000000000000000000000000000000000000000000000c0000000000000000000000000000000000000000000000000000000000000004000000000000000000000000000000000000000000000000000000000000000010000000000000000000000000000000000000000000000000000000000000041046ed27e5db71c4e7ec3b4498ee06913a59183e5c87f169652c92e7cc042f629088ef949c488135055722b8237009e7a77f4337185cbc89a6be60c0a63cfc72a2e00000000000000000000000000000000000000000000000000000000000000",
      "0x00000000000000000000000000000000000000000000000000000000000000030000000000000000000000000a35741418da8238c8ba4c50c83a660164f75daf0000000000000000000000000000000000000000000000000000000000000080000000000000000000000000000000000000000000000000000000000000001400000000000000000000000000000000000000000000000000000000000000c00000000000000000000000000000000000000000000000000000000000000040000000000000000000000000000000000000000000000000000000000000000100000000000000000000000000000000000000000000000000000000000000410475f2cbafbf3425ec8bccd96471ca65f8287f7cf51632a02de07e755e602a3f8fde1764936bd39dc72bf6cb52ba4cb793d42e5ec39465593f12e7a9d79c89d9ce00000000000000000000000000000000000000000000000000000000000000",
      "0x0000000000000000000000000000000000000000000000000000000000000003000000000000000000000000e8e8ed5fd65a10200971c3e1e731c1aa49e994b50000000000000000000000000000000000000000000000000000000000000080000000000000000000000000000000000000000000000000000000000000001500000000000000000000000000000000000000000000000000000000000000c00000000000000000000000000000000000000000000000000000000000000040000000000000000000000000000000000000000000000000000000000000000100000000000000000000000000000000000000000000000000000000000000410454d737a8759eafadcf00a45708a8d602942ff86d22f0e312a40d32dfab30b665e324a045ef3871d0fa448764317f783a3185bc5541c0c141fdea96f971dda0fb00000000000000000000000000000000000000000000000000000000000000",
      "0x0000000000000000000000000000000000000000000000000000000000000003000000000000000000000000b07e170eff06ce9b96d1d1710ce404382aebea880000000000000000000000000000000000000000000000000000000000000080000000000000000000000000000000000000000000000000000000000000001600000000000000000000000000000000000000000000000000000000000000c000000000000000000000000000000000000000000000000000000000000000400000000000000000000000000000000000000000000000000000000000000001000000000000000000000000000000000000000000000000000000000000004104683bac106c55e182fd47ddea0b200fc26a73b9c757c7a95ca166bb55ce468dbfda0933e569ce712138e36eed18b60cc7e1bd327296eeda9ddbe522798ede229000000000000000000000000000000000000000000000000000000000000000",
      "0x00000000000000000000000000000000000000000000000000000000000000030000000000000000000000008c271ba18b42fa6c414f4c668d6d893551d4cd850000000000000000000000000000000000000000000000000000000000000080000000000000000000000000000000000000000000000000000000000000001700000000000000000000000000000000000000000000000000000000000000c0000000000000000000000000000000000000000000000000000000000000004000000000000000000000000000000000000000000000000000000000000000010000000000000000000000000000000000000000000000000000000000000041040c42d1f0f193a07c2bed6650417fe10fe6a50eed429bdd54bbe993b5f5f48ddf8a7b922551d552b06547d049b8c2eef5a05b16ffa9414d12f2e9dac582756e0100000000000000000000000000000000000000000000000000000000000000",
      "0x00000000000000000000000000000000000000000000000000000000000000030000000000000000000000006d8ffd463fcd5fa48ea114defc015831995e42070000000000000000000000000000000000000000000000000000000000000080000000000000000000000000000000000000000000000000000000000000001800000000000000000000000000000000000000000000000000000000000000c00000000000000000000000000000000000000000000000000000000000000040000000000000000000000000000000000000000000000000000000000000000100000000000000000000000000000000000000000000000000000000000000410469ffff7be09bb0ea4b14d32f7d87621119ee8093937e1ea4937797dd16cece9b963363df3a2845b6928dab2c3744129ea4afe454654b2cd0a0301f5665fecdd700000000000000000000000000000000000000000000000000000000000000",
      "0x0000000000000000000000000000000000000000000000000000000000000003000000000000000000000000dc83188b36744a884af3919493762dddc77b373e0000000000000000000000000000000000000000000000000000000000000080000000000000000000000000000000000000000000000000000000000000001900000000000000000000000000000000000000000000000000000000000000c00000000000000000000000000000000000000000000000000000000000000040000000000000000000000000000000000000000000000000000000000000000100000000000000000000000000000000000000000000000000000000000000410432eb1d0014286f77449cf789e2768eaa2502ff102d5efa9177cc59a4a1df00bc978cac7335ed88e42cbc1c1e4e018d2ca3862c683903cfa66b9684a44b2a51d200000000000000000000000000000000000000000000000000000000000000",
      "0x00000000000000000000000000000000000000000000000000000000000000030000000000000000000000007e6bcac9b600394ea1c7c38ea72cc56f57374c870000000000000000000000000000000000000000000000000000000000000080000000000000000000000000000000000000000000000000000000000000001a00000000000000000000000000000000000000000000000000000000000000c0000000000000000000000000000000000000000000000000000000000000004000000000000000000000000000000000000000000000000000000000000000010000000000000000000000000000000000000000000000000000000000000041045197627a4a7f89458469255afb8711ab4c7bc4a76281376cb361c29bd0d9626758d47feadf43d77f843725cbad419e655d8689369c1ce59ccdaa67d47bd0ddf700000000000000000000000000000000000000000000000000000000000000",
      "0x0000000000000000000000000000000000000000000000000000000000000003000000000000000000000000bf20b7664fefb791a1dbb9a9308e1573063113c60000000000000000000000000000000000000000000000000000000000000080000000000000000000000000000000000000000000000000000000000000001b00000000000000000000000000000000000000000000000000000000000000c0000000000000000000000000000000000000000000000000000000000000004000000000000000000000000000000000000000000000000000000000000000010000000000000000000000000000000000000000000000000000000000000041046ed27e5db71c4e7ec3b4498ee06913a59183e5c87f169652c92e7cc042f629088ef949c488135055722b8237009e7a77f4337185cbc89a6be60c0a63cfc72a2e00000000000000000000000000000000000000000000000000000000000000",
      "0x00000000000000000000000000000000000000000000000000000000000000030000000000000000000000000a35741418da8238c8ba4c50c83a660164f75daf0000000000000000000000000000000000000000000000000000000000000080000000000000000000000000000000000000000000000000000000000000001c00000000000000000000000000000000000000000000000000000000000000c00000000000000000000000000000000000000000000000000000000000000040000000000000000000000000000000000000000000000000000000000000000100000000000000000000000000000000000000000000000000000000000000410475f2cbafbf3425ec8bccd96471ca65f8287f7cf51632a02de07e755e602a3f8fde1764936bd39dc72bf6cb52ba4cb793d42e5ec39465593f12e7a9d79c89d9ce00000000000000000000000000000000000000000000000000000000000000",
      "0x0000000000000000000000000000000000000000000000000000000000000003000000000000000000000000e8e8ed5fd65a10200971c3e1e731c1aa49e994b50000000000000000000000000000000000000000000000000000000000000080000000000000000000000000000000000000000000000000000000000000001d00000000000000000000000000000000000000000000000000000000000000c00000000000000000000000000000000000000000000000000000000000000040000000000000000000000000000000000000000000000000000000000000000100000000000000000000000000000000000000000000000000000000000000410454d737a8759eafadcf00a45708a8d602942ff86d22f0e312a40d32dfab30b665e324a045ef3871d0fa448764317f783a3185bc5541c0c141fdea96f971dda0fb00000000000000000000000000000000000000000000000000000000000000",
      "0x0000000000000000000000000000000000000000000000000000000000000003000000000000000000000000b07e170eff06ce9b96d1d1710ce404382aebea880000000000000000000000000000000000000000000000000000000000000080000000000000000000000000000000000000000000000000000000000000001e00000000000000000000000000000000000000000000000000000000000000c000000000000000000000000000000000000000000000000000000000000000400000000000000000000000000000000000000000000000000000000000000001000000000000000000000000000000000000000000000000000000000000004104683bac106c55e182fd47ddea0b200fc26a73b9c757c7a95ca166bb55ce468dbfda0933e569ce712138e36eed18b60cc7e1bd327296eeda9ddbe522798ede229000000000000000000000000000000000000000000000000000000000000000",
      "0x00000000000000000000000000000000000000000000000000000000000000030000000000000000000000008c271ba18b42fa6c414f4c668d6d893551d4cd850000000000000000000000000000000000000000000000000000000000000080000000000000000000000000000000000000000000000000000000000000001f00000000000000000000000000000000000000000000000000000000000000c0000000000000000000000000000000000000000000000000000000000000004000000000000000000000000000000000000000000000000000000000000000010000000000000000000000000000000000000000000000000000000000000041040c42d1f0f193a07c2bed6650417fe10fe6a50eed429bdd54bbe993b5f5f48ddf8a7b922551d552b06547d049b8c2eef5a05b16ffa9414d12f2e9dac582756e0100000000000000000000000000000000000000000000000000000000000000",
      "0x00000000000000000000000000000000000000000000000000000000000000030000000000000000000000006d8ffd463fcd5fa48ea114defc015831995e42070000000000000000000000000000000000000000000000000000000000000080000000000000000000000000000000000000000000000000000000000000002000000000000000000000000000000000000000000000000000000000000000c00000000000000000000000000000000000000000000000000000000000000040000000000000000000000000000000000000000000000000000000000000000100000000000000000000000000000000000000000000000000000000000000410469ffff7be09bb0ea4b14d32f7d87621119ee8093937e1ea4937797dd16cece9b963363df3a2845b6928dab2c3744129ea4afe454654b2cd0a0301f5665fecdd700000000000000000000000000000000000000000000000000000000000000",
      "0x0000000000000000000000000000000000000000000000000000000000000003000000000000000000000000dc83188b36744a884af3919493762dddc77b373e0000000000000000000000000000000000000000000000000000000000000080000000000000000000000000000000000000000000000000000000000000002100000000000000000000000000000000000000000000000000000000000000c00000000000000000000000000000000000000000000000000000000000000040000000000000000000000000000000000000000000000000000000000000000100000000000000000000000000000000000000000000000000000000000000410432eb1d0014286f77449cf789e2768eaa2502ff102d5efa9177cc59a4a1df00bc978cac7335ed88e42cbc1c1e4e018d2ca3862c683903cfa66b9684a44b2a51d200000000000000000000000000000000000000000000000000000000000000",
      "0x00000000000000000000000000000000000000000000000000000000000000030000000000000000000000007e6bcac9b600394ea1c7c38ea72cc56f57374c870000000000000000000000000000000000000000000000000000000000000080000000000000000000000000000000000000000000000000000000000000002200000000000000000000000000000000000000000000000000000000000000c0000000000000000000000000000000000000000000000000000000000000004000000000000000000000000000000000000000000000000000000000000000010000000000000000000000000000000000000000000000000000000000000041045197627a4a7f89458469255afb8711ab4c7bc4a76281376cb361c29bd0d9626758d47feadf43d77f843725cbad419e655d8689369c1ce59ccdaa67d47bd0ddf700000000000000000000000000000000000000000000000000000000000000",
      "0x0000000000000000000000000000000000000000000000000000000000000003000000000000000000000000bf20b7664fefb791a1dbb9a9308e1573063113c60000000000000000000000000000000000000000000000000000000000000080000000000000000000000000000000000000000000000000000000000000002300000000000000000000000000000000000000000000000000000000000000c0000000000000000000000000000000000000000000000000000000000000004000000000000000000000000000000000000000000000000000000000000000010000000000000000000000000000000000000000000000000000000000000041046ed27e5db71c4e7ec3b4498ee06913a59183e5c87f169652c92e7cc042f629088ef949c488135055722b8237009e7a77f4337185cbc89a6be60c0a63cfc72a2e00000000000000000000000000000000000000000000000000000000000000",
      "0x00000000000000000000000000000000000000000000000000000000000000030000000000000000000000000a35741418da8238c8ba4c50c83a660164f75daf0000000000000000000000000000000000000000000000000000000000000080000000000000000000000000000000000000000000000000000000000000002400000000000000000000000000000000000000000000000000000000000000c00000000000000000000000000000000000000000000000000000000000000040000000000000000000000000000000000000000000000000000000000000000100000000000000000000000000000000000000000000000000000000000000410475f2cbafbf3425ec8bccd96471ca65f8287f7cf51632a02de07e755e602a3f8fde1764936bd39dc72bf6cb52ba4cb793d42e5ec39465593f12e7a9d79c89d9ce00000000000000000000000000000000000000000000000000000000000000",
      "0x0000000000000000000000000000000000000000000000000000000000000003000000000000000000000000e8e8ed5fd65a10200971c3e1e731c1aa49e994b50000000000000000000000000000000000000000000000000000000000000080000000000000000000000000000000000000000000000000000000000000002500000000000000000000000000000000000000000000000000000000000000c00000000000000000000000000000000000000000000000000000000000000040000000000000000000000000000000000000000000000000000000000000000100000000000000000000000000000000000000000000000000000000000000410454d737a8759eafadcf00a45708a8d602942ff86d22f0e312a40d32dfab30b665e324a045ef3871d0fa448764317f783a3185bc5541c0c141fdea96f971dda0fb00000000000000000000000000000000000000000000000000000000000000",
      "0x0000000000000000000000000000000000000000000000000000000000000003000000000000000000000000b07e170eff06ce9b96d1d1710ce404382aebea880000000000000000000000000000000000000000000000000000000000000080000000000000000000000000000000000000000000000000000000000000002600000000000000000000000000000000000000000000000000000000000000c000000000000000000000000000000000000000000000000000000000000000400000000000000000000000000000000000000000000000000000000000000001000000000000000000000000000000000000000000000000000000000000004104683bac106c55e182fd47ddea0b200fc26a73b9c757c7a95ca166bb55ce468dbfda0933e569ce712138e36eed18b60cc7e1bd327296eeda9ddbe522798ede229000000000000000000000000000000000000000000000000000000000000000",
      "0x00000000000000000000000000000000000000000000000000000000000000030000000000000000000000008c271ba18b42fa6c414f4c668d6d893551d4cd850000000000000000000000000000000000000000000000000000000000000080000000000000000000000000000000000000000000000000000000000000002700000000000000000000000000000000000000000000000000000000000000c0000000000000000000000000000000000000000000000000000000000000004000000000000000000000000000000000000000000000000000000000000000010000000000000000000000000000000000000000000000000000000000000041040c42d1f0f193a07c2bed6650417fe10fe6a50eed429bdd54bbe993b5f5f48ddf8a7b922551d552b06547d049b8c2eef5a05b16ffa9414d12f2e9dac582756e0100000000000000000000000000000000000000000000000000000000000000",
      "0x00000000000000000000000000000000000000000000000000000000000000030000000000000000000000006d8ffd463fcd5fa48ea114defc015831995e42070000000000000000000000000000000000000000000000000000000000000080000000000000000000000000000000000000000000000000000000000000002800000000000000000000000000000000000000000000000000000000000000c00000000000000000000000000000000000000000000000000000000000000040000000000000000000000000000000000000000000000000000000000000000100000000000000000000000000000000000000000000000000000000000000410469ffff7be09bb0ea4b14d32f7d87621119ee8093937e1ea4937797dd16cece9b963363df3a2845b6928dab2c3744129ea4afe454654b2cd0a0301f5665fecdd700000000000000000000000000000000000000000000000000000000000000",
      "0x000000000000000000000000000000000000000000000000000000000000000300000000000000000000000094c72dbb3fa675eb4be1b3ccdfc6cf851092cbbc0000000000000000000000000000000000000000000000000000000000000080000000000000000000000000000000000000000000000000000000000000002900000000000000000000000000000000000000000000000000000000000000c0000000000000000000000000000000000000000000000000000000000000004000000000000000000000000000000000000000000000000000000000000000010000000000000000000000000000000000000000000000000000000000000041047d190364263990e8b5bc45032baac70d7ed7fc44cac3a003fd74a87ede4ee080730655961af70bfe40575eb0ce67eaa346b246ba2968319d6e9ae27e41ef06a300000000000000000000000000000000000000000000000000000000000000",
      "0x00000000000000000000000000000000000000000000000000000000000000030000000000000000000000006ce52ffa12a9550a55675f6a9c6cf55b5eb944f60000000000000000000000000000000000000000000000000000000000000080000000000000000000000000000000000000000000000000000000000000002a00000000000000000000000000000000000000000000000000000000000000c000000000000000000000000000000000000000000000000000000000000000400000000000000000000000000000000000000000000000000000000000000001000000000000000000000000000000000000000000000000000000000000004104f2c72208decfad0f769d8de7dcfc5292d260c63c4d7324b792d55a79ca97cf5b945482033863c49c7c1b33db3411e54443e449f3db91e8c1264d820a56dcffc900000000000000000000000000000000000000000000000000000000000000",
      "0x0000000000000000000000000000000000000000000000000000000000000003000000000000000000000000dc83188b36744a884af3919493762dddc77b373e0000000000000000000000000000000000000000000000000000000000000080000000000000000000000000000000000000000000000000000000000000002b00000000000000000000000000000000000000000000000000000000000000c00000000000000000000000000000000000000000000000000000000000000040000000000000000000000000000000000000000000000000000000000000000100000000000000000000000000000000000000000000000000000000000000410432eb1d0014286f77449cf789e2768eaa2502ff102d5efa9177cc59a4a1df00bc978cac7335ed88e42cbc1c1e4e018d2ca3862c683903cfa66b9684a44b2a51d200000000000000000000000000000000000000000000000000000000000000",
      "0x00000000000000000000000000000000000000000000000000000000000000030000000000000000000000007e6bcac9b600394ea1c7c38ea72cc56f57374c870000000000000000000000000000000000000000000000000000000000000080000000000000000000000000000000000000000000000000000000000000002c00000000000000000000000000000000000000000000000000000000000000c0000000000000000000000000000000000000000000000000000000000000004000000000000000000000000000000000000000000000000000000000000000010000000000000000000000000000000000000000000000000000000000000041045197627a4a7f89458469255afb8711ab4c7bc4a76281376cb361c29bd0d9626758d47feadf43d77f843725cbad419e655d8689369c1ce59ccdaa67d47bd0ddf700000000000000000000000000000000000000000000000000000000000000",
      "0x0000000000000000000000000000000000000000000000000000000000000003000000000000000000000000bf20b7664fefb791a1dbb9a9308e1573063113c60000000000000000000000000000000000000000000000000000000000000080000000000000000000000000000000000000000000000000000000000000002d00000000000000000000000000000000000000000000000000000000000000c0000000000000000000000000000000000000000000000000000000000000004000000000000000000000000000000000000000000000000000000000000000010000000000000000000000000000000000000000000000000000000000000041046ed27e5db71c4e7ec3b4498ee06913a59183e5c87f169652c92e7cc042f629088ef949c488135055722b8237009e7a77f4337185cbc89a6be60c0a63cfc72a2e00000000000000000000000000000000000000000000000000000000000000",
      "0x00000000000000000000000000000000000000000000000000000000000000030000000000000000000000000a35741418da8238c8ba4c50c83a660164f75daf0000000000000000000000000000000000000000000000000000000000000080000000000000000000000000000000000000000000000000000000000000002e00000000000000000000000000000000000000000000000000000000000000c00000000000000000000000000000000000000000000000000000000000000040000000000000000000000000000000000000000000000000000000000000000100000000000000000000000000000000000000000000000000000000000000410475f2cbafbf3425ec8bccd96471ca65f8287f7cf51632a02de07e755e602a3f8fde1764936bd39dc72bf6cb52ba4cb793d42e5ec39465593f12e7a9d79c89d9ce00000000000000000000000000000000000000000000000000000000000000",
      "0x0000000000000000000000000000000000000000000000000000000000000003000000000000000000000000e8e8ed5fd65a10200971c3e1e731c1aa49e994b50000000000000000000000000000000000000000000000000000000000000080000000000000000000000000000000000000000000000000000000000000002f00000000000000000000000000000000000000000000000000000000000000c00000000000000000000000000000000000000000000000000000000000000040000000000000000000000000000000000000000000000000000000000000000100000000000000000000000000000000000000000000000000000000000000410454d737a8759eafadcf00a45708a8d602942ff86d22f0e312a40d32dfab30b665e324a045ef3871d0fa448764317f783a3185bc5541c0c141fdea96f971dda0fb00000000000000000000000000000000000000000000000000000000000000",
      "0x0000000000000000000000000000000000000000000000000000000000000003000000000000000000000000b07e170eff06ce9b96d1d1710ce404382aebea880000000000000000000000000000000000000000000000000000000000000080000000000000000000000000000000000000000000000000000000000000003000000000000000000000000000000000000000000000000000000000000000c000000000000000000000000000000000000000000000000000000000000000400000000000000000000000000000000000000000000000000000000000000001000000000000000000000000000000000000000000000000000000000000004104683bac106c55e182fd47ddea0b200fc26a73b9c757c7a95ca166bb55ce468dbfda0933e569ce712138e36eed18b60cc7e1bd327296eeda9ddbe522798ede229000000000000000000000000000000000000000000000000000000000000000",
      "0x00000000000000000000000000000000000000000000000000000000000000030000000000000000000000008c271ba18b42fa6c414f4c668d6d893551d4cd850000000000000000000000000000000000000000000000000000000000000080000000000000000000000000000000000000000000000000000000000000003100000000000000000000000000000000000000000000000000000000000000c0000000000000000000000000000000000000000000000000000000000000004000000000000000000000000000000000000000000000000000000000000000010000000000000000000000000000000000000000000000000000000000000041040c42d1f0f193a07c2bed6650417fe10fe6a50eed429bdd54bbe993b5f5f48ddf8a7b922551d552b06547d049b8c2eef5a05b16ffa9414d12f2e9dac582756e0100000000000000000000000000000000000000000000000000000000000000",
      "0x00000000000000000000000000000000000000000000000000000000000000030000000000000000000000006d8ffd463fcd5fa48ea114defc015831995e42070000000000000000000000000000000000000000000000000000000000000080000000000000000000000000000000000000000000000000000000000000003200000000000000000000000000000000000000000000000000000000000000c00000000000000000000000000000000000000000000000000000000000000040000000000000000000000000000000000000000000000000000000000000000100000000000000000000000000000000000000000000000000000000000000410469ffff7be09bb0ea4b14d32f7d87621119ee8093937e1ea4937797dd16cece9b963363df3a2845b6928dab2c3744129ea4afe454654b2cd0a0301f5665fecdd700000000000000000000000000000000000000000000000000000000000000",
      "0x000000000000000000000000000000000000000000000000000000000000000300000000000000000000000094c72dbb3fa675eb4be1b3ccdfc6cf851092cbbc0000000000000000000000000000000000000000000000000000000000000080000000000000000000000000000000000000000000000000000000000000003300000000000000000000000000000000000000000000000000000000000000c0000000000000000000000000000000000000000000000000000000000000004000000000000000000000000000000000000000000000000000000000000000010000000000000000000000000000000000000000000000000000000000000041047d190364263990e8b5bc45032baac70d7ed7fc44cac3a003fd74a87ede4ee080730655961af70bfe40575eb0ce67eaa346b246ba2968319d6e9ae27e41ef06a300000000000000000000000000000000000000000000000000000000000000",
      "0x00000000000000000000000000000000000000000000000000000000000000030000000000000000000000006ce52ffa12a9550a55675f6a9c6cf55b5eb944f60000000000000000000000000000000000000000000000000000000000000080000000000000000000000000000000000000000000000000000000000000003400000000000000000000000000000000000000000000000000000000000000c000000000000000000000000000000000000000000000000000000000000000400000000000000000000000000000000000000000000000000000000000000001000000000000000000000000000000000000000000000000000000000000004104f2c72208decfad0f769d8de7dcfc5292d260c63c4d7324b792d55a79ca97cf5b945482033863c49c7c1b33db3411e54443e449f3db91e8c1264d820a56dcffc900000000000000000000000000000000000000000000000000000000000000",
      "0x0000000000000000000000000000000000000000000000000000000000000003000000000000000000000000dc83188b36744a884af3919493762dddc77b373e0000000000000000000000000000000000000000000000000000000000000080000000000000000000000000000000000000000000000000000000000000003500000000000000000000000000000000000000000000000000000000000000c00000000000000000000000000000000000000000000000000000000000000040000000000000000000000000000000000000000000000000000000000000000100000000000000000000000000000000000000000000000000000000000000410432eb1d0014286f77449cf789e2768eaa2502ff102d5efa9177cc59a4a1df00bc978cac7335ed88e42cbc1c1e4e018d2ca3862c683903cfa66b9684a44b2a51d200000000000000000000000000000000000000000000000000000000000000",
      "0x000000000000000000000000000000000000000000000000000000000000000300000000000000000000000004dd467171b754b6c7f7c38acbdc1fcf20a3c3300000000000000000000000000000000000000000000000000000000000000080000000000000000000000000000000000000000000000000000000000000003600000000000000000000000000000000000000000000000000000000000000c000000000000000000000000000000000000000000000000000000000000000400000000000000000000000000000000000000000000000000000000000000001000000000000000000000000000000000000000000000000000000000000004104d04c1f2e01c8928cb7e55e0847b5be79cf8360f4a6a01144e9ea4e570e9116a621b96e0c500ec7cb53768195cad13b161b8f5c327f9c7f78394af4bd081dd4d600000000000000000000000000000000000000000000000000000000000000",
      "0x00000000000000000000000000000000000000000000000000000000000000030000000000000000000000007e6bcac9b600394ea1c7c38ea72cc56f57374c870000000000000000000000000000000000000000000000000000000000000080000000000000000000000000000000000000000000000000000000000000003700000000000000000000000000000000000000000000000000000000000000c0000000000000000000000000000000000000000000000000000000000000004000000000000000000000000000000000000000000000000000000000000000010000000000000000000000000000000000000000000000000000000000000041045197627a4a7f89458469255afb8711ab4c7bc4a76281376cb361c29bd0d9626758d47feadf43d77f843725cbad419e655d8689369c1ce59ccdaa67d47bd0ddf700000000000000000000000000000000000000000000000000000000000000",
      "0x0000000000000000000000000000000000000000000000000000000000000003000000000000000000000000bf20b7664fefb791a1dbb9a9308e1573063113c60000000000000000000000000000000000000000000000000000000000000080000000000000000000000000000000000000000000000000000000000000003800000000000000000000000000000000000000000000000000000000000000c0000000000000000000000000000000000000000000000000000000000000004000000000000000000000000000000000000000000000000000000000000000010000000000000000000000000000000000000000000000000000000000000041046ed27e5db71c4e7ec3b4498ee06913a59183e5c87f169652c92e7cc042f629088ef949c488135055722b8237009e7a77f4337185cbc89a6be60c0a63cfc72a2e00000000000000000000000000000000000000000000000000000000000000",
      "0x00000000000000000000000000000000000000000000000000000000000000030000000000000000000000000a35741418da8238c8ba4c50c83a660164f75daf0000000000000000000000000000000000000000000000000000000000000080000000000000000000000000000000000000000000000000000000000000003900000000000000000000000000000000000000000000000000000000000000c00000000000000000000000000000000000000000000000000000000000000040000000000000000000000000000000000000000000000000000000000000000100000000000000000000000000000000000000000000000000000000000000410475f2cbafbf3425ec8bccd96471ca65f8287f7cf51632a02de07e755e602a3f8fde1764936bd39dc72bf6cb52ba4cb793d42e5ec39465593f12e7a9d79c89d9ce00000000000000000000000000000000000000000000000000000000000000",
      "0x0000000000000000000000000000000000000000000000000000000000000003000000000000000000000000e8e8ed5fd65a10200971c3e1e731c1aa49e994b50000000000000000000000000000000000000000000000000000000000000080000000000000000000000000000000000000000000000000000000000000003a00000000000000000000000000000000000000000000000000000000000000c00000000000000000000000000000000000000000000000000000000000000040000000000000000000000000000000000000000000000000000000000000000100000000000000000000000000000000000000000000000000000000000000410454d737a8759eafadcf00a45708a8d602942ff86d22f0e312a40d32dfab30b665e324a045ef3871d0fa448764317f783a3185bc5541c0c141fdea96f971dda0fb00000000000000000000000000000000000000000000000000000000000000",
      "0x0000000000000000000000000000000000000000000000000000000000000003000000000000000000000000b07e170eff06ce9b96d1d1710ce404382aebea880000000000000000000000000000000000000000000000000000000000000080000000000000000000000000000000000000000000000000000000000000003b00000000000000000000000000000000000000000000000000000000000000c000000000000000000000000000000000000000000000000000000000000000400000000000000000000000000000000000000000000000000000000000000001000000000000000000000000000000000000000000000000000000000000004104683bac106c55e182fd47ddea0b200fc26a73b9c757c7a95ca166bb55ce468dbfda0933e569ce712138e36eed18b60cc7e1bd327296eeda9ddbe522798ede229000000000000000000000000000000000000000000000000000000000000000",
      "0x00000000000000000000000000000000000000000000000000000000000000030000000000000000000000008c271ba18b42fa6c414f4c668d6d893551d4cd850000000000000000000000000000000000000000000000000000000000000080000000000000000000000000000000000000000000000000000000000000003c00000000000000000000000000000000000000000000000000000000000000c0000000000000000000000000000000000000000000000000000000000000004000000000000000000000000000000000000000000000000000000000000000010000000000000000000000000000000000000000000000000000000000000041040c42d1f0f193a07c2bed6650417fe10fe6a50eed429bdd54bbe993b5f5f48ddf8a7b922551d552b06547d049b8c2eef5a05b16ffa9414d12f2e9dac582756e0100000000000000000000000000000000000000000000000000000000000000",
      "0x00000000000000000000000000000000000000000000000000000000000000030000000000000000000000006d8ffd463fcd5fa48ea114defc015831995e42070000000000000000000000000000000000000000000000000000000000000080000000000000000000000000000000000000000000000000000000000000003d00000000000000000000000000000000000000000000000000000000000000c00000000000000000000000000000000000000000000000000000000000000040000000000000000000000000000000000000000000000000000000000000000100000000000000000000000000000000000000000000000000000000000000410469ffff7be09bb0ea4b14d32f7d87621119ee8093937e1ea4937797dd16cece9b963363df3a2845b6928dab2c3744129ea4afe454654b2cd0a0301f5665fecdd700000000000000000000000000000000000000000000000000000000000000",
      "0x000000000000000000000000000000000000000000000000000000000000000300000000000000000000000094c72dbb3fa675eb4be1b3ccdfc6cf851092cbbc0000000000000000000000000000000000000000000000000000000000000080000000000000000000000000000000000000000000000000000000000000003e00000000000000000000000000000000000000000000000000000000000000c0000000000000000000000000000000000000000000000000000000000000004000000000000000000000000000000000000000000000000000000000000000010000000000000000000000000000000000000000000000000000000000000041047d190364263990e8b5bc45032baac70d7ed7fc44cac3a003fd74a87ede4ee080730655961af70bfe40575eb0ce67eaa346b246ba2968319d6e9ae27e41ef06a300000000000000000000000000000000000000000000000000000000000000",
      "0x00000000000000000000000000000000000000000000000000000000000000030000000000000000000000006ce52ffa12a9550a55675f6a9c6cf55b5eb944f60000000000000000000000000000000000000000000000000000000000000080000000000000000000000000000000000000000000000000000000000000003f00000000000000000000000000000000000000000000000000000000000000c000000000000000000000000000000000000000000000000000000000000000400000000000000000000000000000000000000000000000000000000000000001000000000000000000000000000000000000000000000000000000000000004104f2c72208decfad0f769d8de7dcfc5292d260c63c4d7324b792d55a79ca97cf5b945482033863c49c7c1b33db3411e54443e449f3db91e8c1264d820a56dcffc900000000000000000000000000000000000000000000000000000000000000",
      "0x0000000000000000000000000000000000000000000000000000000000000003000000000000000000000000dc83188b36744a884af3919493762dddc77b373e0000000000000000000000000000000000000000000000000000000000000080000000000000000000000000000000000000000000000000000000000000004000000000000000000000000000000000000000000000000000000000000000c00000000000000000000000000000000000000000000000000000000000000040000000000000000000000000000000000000000000000000000000000000000100000000000000000000000000000000000000000000000000000000000000410432eb1d0014286f77449cf789e2768eaa2502ff102d5efa9177cc59a4a1df00bc978cac7335ed88e42cbc1c1e4e018d2ca3862c683903cfa66b9684a44b2a51d200000000000000000000000000000000000000000000000000000000000000",
      "0x000000000000000000000000000000000000000000000000000000000000000300000000000000000000000004dd467171b754b6c7f7c38acbdc1fcf20a3c3300000000000000000000000000000000000000000000000000000000000000080000000000000000000000000000000000000000000000000000000000000004100000000000000000000000000000000000000000000000000000000000000c000000000000000000000000000000000000000000000000000000000000000400000000000000000000000000000000000000000000000000000000000000001000000000000000000000000000000000000000000000000000000000000004104d04c1f2e01c8928cb7e55e0847b5be79cf8360f4a6a01144e9ea4e570e9116a621b96e0c500ec7cb53768195cad13b161b8f5c327f9c7f78394af4bd081dd4d600000000000000000000000000000000000000000000000000000000000000",
      "0x000000000000000000000000000000000000000000000000000000000000000300000000000000000000000075f46a07294a497914b3c3a851d18fd5354288c00000000000000000000000000000000000000000000000000000000000000080000000000000000000000000000000000000000000000000000000000000004200000000000000000000000000000000000000000000000000000000000000c000000000000000000000000000000000000000000000000000000000000000400000000000000000000000000000000000000000000000000000000000000001000000000000000000000000000000000000000000000000000000000000004104a95c74edbd664d5b02f5771be83320ba623c08684c2919e6b0d14b8770236784616c3f9917c7cb0d1c1df8082439cab5abc7e97b8413b230cb0b99f424c3cb9300000000000000000000000000000000000000000000000000000000000000"
    >>

(***************************************************************************)
(* Bounds of the model.                                                    *)
(***************************************************************************)
\* block heights the execution loop runs through: 1..MaxHeight
MaxHeight == 3

\* calls of add (direct or through store_missing_validator_changes)
MaxAdds == 2

(***************************************************************************)
(* Builds: the data compiled into the patch, and with each the block hash  *)
(* the parent chain holds at topdown_height where that build runs (the     *)
(* patch never reads it).  Build 1 is the source as it stands; the others  *)
(* replace the digest text or the blob list, to reach the error paths of   *)
(* the patch and of parse_logs.                                            *)
(***************************************************************************)
\* the bytes written in topdown_hash_hex
TOPDOWN_HASH == hex_decode(topdown_hash_hex).value

\* another 32-byte digest
OTHER_HASH == [i \in 1..32 |-> IF i = 1 THEN 0 ELSE TOPDOWN_HASH[i]]

Builds ==
    << [topdown_hash_hex |-> topdown_hash_hex,
        raw_configuration_changes |-> raw_configuration_changes,
        parent_block_hash |-> TOPDOWN_HASH],
       \* the same digest written in upper case
       [topdown_hash_hex |->
            "768C3521BF3B9003F3BCA8C5AAD59EE15639843677EED3278954179BFB4D9907",
        raw_configuration_changes |-> SubSeq(raw_configuration_changes, 1, 2),
        parent_block_hash |-> TOPDOWN_HASH],
       \* a digest of 4 bytes
       [topdown_hash_hex |-> "768c3521",
        raw_configuration_changes |-> SubSeq(raw_configuration_changes, 1, 2),
        parent_block_hash |-> TOPDOWN_HASH],
       \* an odd number of characters
       [topdown_hash_hex |-> "768c352",
        raw_configuration_changes |-> SubSeq(raw_configuration_changes, 1, 2),
        parent_block_hash |-> TOPDOWN_HASH],
       \* not hexadecimal
       [topdown_hash_hex |->
            "0x8c3521bf3b9003f3bca8c5aad59ee15639843677eed3278954179bfb4d9907",
        raw_configuration_changes |-> SubSeq(raw_configuration_changes, 1, 2),
        parent_block_hash |-> TOPDOWN_HASH],
       \* a blob that is not hexadecimal, after a good one
       [topdown_hash_hex |-> topdown_hash_hex,
        raw_configuration_changes |->
            <<raw_configuration_changes[1], "0x00zz">>,
        parent_block_hash |-> TOPDOWN_HASH],
       \* a blob too short for the event's layout, after a good one
       [topdown_hash_hex |-> topdown_hash_hex,
        raw_configuration_changes |->
            <<raw_configuration_changes[1], "0x0003">>,
        parent_block_hash |-> TOPDOWN_HASH],
       \* three blobs, the second without the 0x prefix
       [topdown_hash_hex |-> topdown_hash_hex,
        raw_configuration_changes |->
            <<raw_configuration_changes[1],
              strip_prefix_0x(raw_configuration_changes[2]),
              raw_configuration_changes[3]>>,
        parent_block_hash |-> TOPDOWN_HASH],
       \* the source as it stands, where the parent chain holds another hash
       [topdown_hash_hex |-> topdown_hash_hex,
        raw_configuration_changes |-> SubSeq(raw_configuration_changes, 1, 2),
        parent_block_hash |-> OTHER_HASH]
    >>

(***************************************************************************)
(* parse_logs and the log decoder.                                         *)
(***************************************************************************)
\* H256::from_str: 64 hexadecimal characters, with or without 0x
H256_from_str(s) ==
    LET t == IF starts_with_0x(s) THEN strip_prefix_0x(s) ELSE s
        d == hex_decode(t)
    IN  IF Len(t) # 64 THEN Err("InvalidHexLength") ELSE d

RawLog(data, topics) == [data |-> data, topics |-> topics]

RECURSIVE parse_logs_loop_skip(_, _)
\* a loop that leaves out the blobs that do not decode
parse_logs_loop_skip(logs, res) ==
    IF logs = <<>> THEN Ok(res)
    ELSE LET hex_str == Head(logs)
             data == IF starts_with_0x(hex_str)
                     THEN hex_decode(strip_prefix_0x(hex_str))
                     ELSE hex_decode(hex_str)
             topic == H256_from_str(CONFIGURATION_CHANGE_TOPIC)
         IN  IF ~data.ok THEN parse_logs_loop_skip(Tail(logs), res)
             ELSE IF ~topic.ok THEN Err(topic.err)
             ELSE parse_logs_loop_skip(Tail(logs),
                      Append(res, RawLog(data.value, <<topic.value>>)))

RECURSIVE parse_logs_loop_prepend(_, _)
\* a loop that puts each log in front of the ones before it
parse_logs_loop_prepend(logs, res) ==
    IF logs = <<>> THEN Ok(res)
    ELSE LET hex_str == Head(logs)
             data == IF starts_with_0x(hex_str)
                     THEN hex_decode(strip_prefix_0x(hex_str))
                     ELSE hex_decode(hex_str)
             topic == H256_from_str(CONFIGURATION_CHANGE_TOPIC)
         IN  IF ~data.ok THEN Err(data.err)
             ELSE IF ~topic.ok THEN Err(topic.err)
             ELSE parse_logs_loop_prepend(Tail(logs),
                      <<RawLog(data.value, <<topic.value>>)>> \o res)

RECURSIVE parse_logs_loop(_, _)
\* the for loop of parse_logs: `?` leaves at the first failure, dropping res
parse_logs_loop(logs, res) ==
    IF logs = <<>> THEN Ok(res)
    ELSE LET hex_str == Head(logs)
             data == IF starts_with_0x(hex_str)
                     THEN hex_decode(strip_prefix_0x(hex_str))
                     ELSE hex_decode(hex_str)
             topic == H256_from_str(CONFIGURATION_CHANGE_TOPIC)
         IN  IF ~data.ok THEN Err(data.err)
             ELSE IF ~topic.ok THEN Err(topic.err)
             ELSE parse_logs_loop(Tail(logs),
                                  Append(res, RawLog(data.value, <<topic.value>>)))

parse_logs(logs) == parse_logs_loop(logs, <<>>)

\* the signature hash of NewStakingChangeRequest(uint8,address,bytes,uint64)
NewStakingChangeRequest_signature ==
    hex_decode(CONFIGURATION_CHANGE_TOPIC).value

\* the k-th 32-byte word of data, k from 0
Word(data, k) == SubSeq(data, 32 * k + 1, 32 * k + 32)

IsZero(bytes) == \A i \in 1..Len(bytes) : bytes[i] = 0

\* the value of a 32-byte big-endian word whose first 29 bytes are zero
Low24(w) == w[30] * 65536 + w[31] * 256 + w[32]

\* One blob as the event (uint8 op, address validator, bytes payload,
\* uint64 configurationNumber): four head words, the third the offset of
\* the payload's length word.
decode_log(log) ==
    LET data == log.data IN
    IF log.topics = <<>> \/ Head(log.topics) # NewStakingChangeRequest_signature
    THEN Err("DecodeError")
    ELSE IF Len(data) < 128 THEN Err("DecodeError")
    ELSE IF ~IsZero(SubSeq(Word(data, 0), 1, 31)) THEN Err("DecodeError")
    ELSE IF ~IsZero(SubSeq(Word(data, 3), 1, 24)) THEN Err("DecodeError")
    ELSE IF ~IsZero(SubSeq(Word(data, 2), 1, 29)) THEN Err("DecodeError")
    ELSE LET off == Low24(Word(data, 2)) IN
         IF off + 32 > Len(data) THEN Err("DecodeError")
         ELSE LET lenw == SubSeq(data, off + 1, off + 32) IN
              IF ~IsZero(SubSeq(lenw, 1, 29)) THEN Err("DecodeError")
              ELSE IF off + 32 + Low24(lenw) > Len(data) THEN Err("DecodeError")
              ELSE Ok([op |-> Word(data, 0)[32],
                       validator |-> SubSeq(Word(data, 1), 13, 32),
                       payload |-> SubSeq(data, off + 33, off + 32 + Low24(lenw)),
                       configuration_number |-> SubSeq(Word(data, 3), 25, 32)])

RECURSIVE decode_logs_loop(_, _)
decode_logs_loop(logs, res) ==
    IF logs = <<>> THEN Ok(res)
    ELSE LET p == decode_log(Head(logs)) IN
         IF ~p.ok THEN Err(p.err)
         ELSE decode_logs_loop(Tail(logs), Append(res, p.value))

\* ethers_contract::decode_logs::<NewStakingChangeRequestFilter>
decode_logs(logs) == decode_logs_loop(logs, <<>>)

\* the closure of .map(): one StakingChangeRequest per decoded event
StakingChangeRequest(p) ==
    [configuration_number |-> p.configuration_number,
     change |-> [op |-> p.op, payload |-> p.payload, validator |-> p.validator]]

\* parse_logs(raw_configuration_changes), for each build
logs_of ==
    [b \in DOMAIN Builds |-> parse_logs(Builds[b].raw_configuration_changes)]

\* decode_logs(&logs), for each build whose blobs parsed
events_of ==
    [b \in DOMAIN Builds |->
        IF logs_of[b].ok THEN decode_logs(logs_of[b].value)
        ELSE Err(logs_of[b].err)]

\* a collect that turns the order round
validator_changes_of_reversed(events) ==
    [i \in 1..Len(events) |-> StakingChangeRequest(events[Len(events) + 1 - i])]

\* .into_iter().map(..).collect()
validator_changes_of(events) ==
    [i \in 1..Len(events) |-> StakingChangeRequest(events[i])]

ParentFinality(height, block_hash) ==
    [height |-> height, block_hash |-> block_hash]

(***************************************************************************)
(* Upgrade descriptors and the scheduler's registry.                       *)
(***************************************************************************)
\* crate::cmd::upgrades::CHAIN_ID, the chain upgrade01 is written for
CHAIN_ID == "CHAIN_ID"

\* any other chain a node may run
OTHER_CHAIN == "OTHER_CHAIN"

Chains == {CHAIN_ID, OTHER_CHAIN}

Heights == 1..MaxHeight

None == "None"

\* Upgrade::new_by_id(chain_id, block_height, new_app_version, migration);
\* migration names the patch: "upgrade01" is the closure of upgrade01.rs,
\* "other" any other patch.
Upgrade_new_by_id(chain_id, block_height, new_app_version, migration) ==
    [chain_id |-> chain_id, block_height |-> block_height,
     new_app_version |-> new_app_version, migration |-> migration]

NoUpgrade == Upgrade_new_by_id("", 0, None, "")

UpgradeKey(upgrade) == <<upgrade.chain_id, upgrade.block_height>>

\* an add that accepts every descriptor
add_result_always_ok(upgrades, upgrade) == "Ok"

\* add: the result returned for `upgrade` on registry `upgrades`
add_result(upgrades, upgrade) ==
    IF UpgradeKey(upgrade) \in DOMAIN upgrades
    THEN "DuplicateKeyError" ELSE "Ok"

\* add: the registry after the call; an occupied key keeps its entry
add_entries(upgrades, upgrade) ==
    IF UpgradeKey(upgrade) \in DOMAIN upgrades THEN upgrades
    ELSE [k \in DOMAIN upgrades \cup {UpgradeKey(upgrade)} |->
             IF k = UpgradeKey(upgrade) THEN upgrade ELSE upgrades[k]]

\* get, matching the height alone
get_any_chain(upgrades, chain_id, height) ==
    {upgrades[k] : k \in {j \in DOMAIN upgrades : j[2] = height}}

\* get, matching every descriptor due at or below the height
get_at_or_below(upgrades, chain_id, height) ==
    {upgrades[k] : k \in {j \in DOMAIN upgrades :
                              j[1] = chain_id /\ j[2] <= height}}

\* the lookup of maybe_apply: the descriptors registered for (chain_id, height)
get(upgrades, chain_id, height) ==
    {upgrades[k] : k \in {j \in DOMAIN upgrades : j = <<chain_id, height>>}}

\* upgrade01, registered one block late
upgrade01_late(block_height) ==
    Upgrade_new_by_id(CHAIN_ID, block_height + 1, None, "upgrade01")

\* the descriptor store_missing_validator_changes builds for block_height
upgrade01(block_height) ==
    Upgrade_new_by_id(CHAIN_ID, block_height, None, "upgrade01")

\* store_missing_validator_changes dropping add's error
store_missing_validator_changes_ok(r) == "Ok"

\* store_missing_validator_changes returns what add returned
store_missing_validator_changes_result(r) == r

\* maybe_apply skipping a failed patch
maybe_apply_skip(r) == "Ok"

\* maybe_apply hands the patch's error to its caller
maybe_apply_result(r) == r

\* a loop that runs its first height again and again
next_height_again(h) == 1

\* the block-execution loop: the height of the next call
next_height(h) == h + 1

(***************************************************************************)
(* Chain state: the storage behind each address.                           *)
(***************************************************************************)
OTHER_ADDR == "0x0000000000000000000000000000000000000000"

Addresses == {gateway_addr, OTHER_ADDR}

InitStorage ==
    [validator_changes |-> <<>>, parent_finality |-> ParentFinality(0, <<>>)]

\* TopDownFinalityFacet.store_validator_changes, when it does not revert
store_validator_changes(st, addr, changes) ==
    [st EXCEPT ![addr].validator_changes = @ \o changes]

\* TopDownFinalityFacet.commit_parent_finality, when it does not revert
commit_parent_finality(st, addr, finality) ==
    [st EXCEPT ![addr].parent_finality = finality]

\* one call_with_return: the method, its address and argument, and whether
\* the facet reverted
Call(method, addr, changes, finality, reverted) ==
    [method |-> method, addr |-> addr, changes |-> changes,
     finality |-> finality, reverted |-> reverted]

(***************************************************************************)
(* The steps of the patch, in the order of the closure's statements.       *)
(***************************************************************************)
first_step == "decode_hash"

\* the digest compared only after the staking call
step_after_check_late(step) ==
    CASE step = "decode_hash" -> "parse_logs"
      [] step = "parse_logs" -> "decode_logs"
      [] step = "decode_logs" -> "store_validator_changes"
      [] step = "store_validator_changes" -> "check_hash"
      [] step = "check_hash" -> "commit_parent_finality"
      [] step = "commit_parent_finality" -> "return"

\* the finality call made before the staking call
step_after_finality_first(step) ==
    CASE step = "decode_hash" -> "check_hash"
      [] step = "check_hash" -> "parse_logs"
      [] step = "parse_logs" -> "decode_logs"
      [] step = "decode_logs" -> "commit_parent_finality"
      [] step = "commit_parent_finality" -> "store_validator_changes"
      [] step = "store_validator_changes" -> "return"

step_after(step) ==
    CASE step = "decode_hash" -> "check_hash"
      [] step = "check_hash" -> "parse_logs"
      [] step = "parse_logs" -> "decode_logs"
      [] step = "decode_logs" -> "store_validator_changes"
      [] step = "store_validator_changes" -> "commit_parent_finality"
      [] step = "commit_parent_finality" -> "return"

\* hex::decode(topdown_hash_hex)?.try_into().map_err(..)?
decode_topdown_hash(hash_hex) ==
    LET d == hex_decode(hash_hex) IN
    IF ~d.ok THEN d
    ELSE IF Len(d.value) # 32 THEN Err("cannot convert vec to bytes32")
    ELSE d

\* a comparison that never differs
hash_not_equal_never(hash, hash_hex) == hex_encode(hash) # hex_encode(hash)

\* if hex::encode(topdown_hash) != topdown_hash_hex { return Err(..) }
hash_not_equal(hash, hash_hex) == hex_encode(hash) # hash_hex

\* a finality built with an empty hash
finality_of_default(hash) == ParentFinality(topdown_height, [i \in 1..32 |-> 0])

\* ParentFinality { height: topdown_height, block_hash: topdown_hash }
finality_of(hash) == ParentFinality(topdown_height, hash)

(***************************************************************************)
(* BlockHashHandler: the request, the pool and the steps of handle.        *)
(***************************************************************************)
MaxRequests == 2

MaxEpoch == 1

DigitChars == {"0", "1", "2", "3", "4", "5", "6", "7", "8", "9"}

RECURSIVE split(_, _, _)
\* id.split('/'): the pieces of text between the slashes, from position i on
split(text, i, start) ==
    IF i > Len(text) THEN <<SubSeq(text, start, Len(text))>>
    ELSE IF CharAt(text, i) = "/"
         THEN <<SubSeq(text, start, i - 1)>> \o split(text, i + 1, i + 1)
    ELSE split(text, i + 1, start)

\* Address::from_str on an id address: f or t, then digits
Address_from_str(s) ==
    IF /\ Len(s) >= 2
       /\ CharAt(s, 1) \in {"f", "t"}
       /\ \A i \in 2..Len(s) : CharAt(s, i) \in DigitChars
    THEN Ok(s) ELSE Err("InvalidAddress")

\* SubnetID::from_str: "/r" and the root chain's number, then one address
\* per further segment
SubnetID_from_str(id) ==
    IF ~(Len(id) >= 2 /\ SubSeq(id, 1, 2) = "/r") THEN Err("InvalidID")
    ELSE LET segments == Tail(split(id, 1, 1))
             root == SubSeq(segments[1], 2, Len(segments[1]))
             children == Tail(segments)
         IN  IF root = "" \/ \E i \in 1..Len(root) : CharAt(root, i) \notin DigitChars
             THEN Err("InvalidID")
             ELSE IF \E k \in DOMAIN children : ~Address_from_str(children[k]).ok
             THEN Err("InvalidAddress")
             ELSE Ok([root |-> root, children |-> children])

\* the subnet_id strings a request may carry
SubnetIdStrings ==
    {"/r31415926", "/r31415926/f01", "/r31415926/f01/f02", "r31415926",
     "/r", "/r31415926/01", ""}

\* the subnets a pool may hold a connection for
KnownSubnets ==
    {SubnetID_from_str("/r31415926").value,
     SubnetID_from_str("/r31415926/f01").value}

\* a connection: the subnet's configuration, and whether check_subnet
\* accepts that configuration
Connection(subnet, accepted) == [subnet |-> [id |-> subnet, accepted |-> accepted]]

Pools ==
    UNION {{[s \in S |-> Connection(s, accepted[s])] : accepted \in [S -> BOOLEAN]} :
           S \in SUBSET KnownSubnets}

BlockHashParams(subnet_id, h) == [subnet_id |-> subnet_id, height |-> h]

NoRequest == BlockHashParams("", 0)

\* self.pool.get(&subnet)
pool_get(connections, subnet) ==
    IF subnet \in DOMAIN connections
    THEN [some |-> TRUE, conn |-> connections[subnet]]
    ELSE [some |-> FALSE, conn |-> <<>>]

\* check_subnet(subnet_config)
check_subnet(subnet_config) ==
    IF subnet_config.accepted THEN Ok(<<>>) ELSE Err("subnet check failed")

\* the block hash the parent holds for a height
block_hash_at(subnet, h) == <<Len(subnet.children), h>>

\* a handler that queries without check_subnet
handle_after_unchecked(step) ==
    CASE step = "from_str" -> "pool_get"
      [] step = "pool_get" -> "get_block_hash"
      [] step = "check_subnet" -> "get_block_hash"
      [] step = "get_block_hash" -> "done"

\* the statements of handle, in order
handle_after(step) ==
    CASE step = "from_str" -> "pool_get"
      [] step = "pool_get" -> "check_subnet"
      [] step = "check_subnet" -> "get_block_hash"
      [] step = "get_block_hash" -> "done"

VARIABLES
    phase,             \* "Registering" or "Sealed"
    entries,           \* the registry: UpgradeKey -> descriptor
    addLog,            \* the calls of add so far, with their results
    node_chain,        \* the chain identity of the running node
    build,             \* index in Builds of the data compiled in
    height,            \* height of the last maybe_apply call
    pc,                \* "idle", "firing", or the step of the patch to run
    pending,           \* descriptors found by the lookup and not yet run
    running,           \* the descriptor whose patch runs or ran last
    topdown_hash,      \* the patch's local of that name
    trace,             \* steps executed by this execution of the patch
    calls,             \* facet calls made by this execution of the patch
    patch_ret,         \* what the patch returned
    result,            \* what maybe_apply returned
    fired,             \* keys of the upgrades that reached Fired
    invocations,       \* every invocation of a patch: descriptor, chain, height
    state,             \* chain state: address -> storage
    pre_state,         \* chain state when the patch started
    pool,              \* BlockHashHandler.pool: SubnetID -> connection
    request,           \* the BlockHashParams being handled
    handle_pc,         \* "idle", the statement of handle to run, or "done"
    handle_trace,      \* statements of handle executed for this request
    queries,           \* get_block_hash queries issued for this request
    response,          \* what handle returned
    served,            \* number of requests taken so far
    executions,        \* two executions of the patch, each with its own state
    node_local,        \* what each executing node holds outside the chain state
    facet_reverts,     \* method -> whether the facet reverts the call
    hex_text,          \* a string given to parse_logs, alone in its list
    plain_logs,        \* parse_logs(vec![s])
    prefixed_logs      \* parse_logs(vec!["0x" + s])

vars ==
    <<phase, entries, addLog, node_chain, build, height, pc,
      pending, running, topdown_hash, trace, calls, patch_ret, result, fired,
      invocations, state, pre_state,
      pool, request, handle_pc, handle_trace, queries, response, served,
      executions, node_local, facet_reverts,
      hex_text, plain_logs, prefixed_logs>>

sched_vars == <<phase, entries, addLog>>

rpc_vars ==
    <<pool, request, handle_pc, handle_trace, queries, response, served>>

\* what no step of registration, maybe_apply or the patch changes
parse_vars == <<hex_text, plain_logs, prefixed_logs>>

env_vars ==
    <<node_chain, build, rpc_vars, executions, node_local, facet_reverts,
      parse_vars>>

upgrade_vars ==
    <<phase, entries, addLog, node_chain, build, height, pc,
      pending, running, topdown_hash, trace, calls, patch_ret, result, fired,
      invocations, state, pre_state>>

NoResponse == Err("no response")

\* BlockHashHandler::new(pool), before any request
InitHandler ==
    /\ pool \in Pools
    /\ request = NoRequest
    /\ handle_pc = "idle"
    /\ handle_trace = <<>>
    /\ queries = <<>>
    /\ response = NoResponse
    /\ served = 0

\* the scheduler, the loop and the chain state after construction
InitUpgrades ==
    /\ phase = "Registering"
    /\ entries = <<>>
    /\ addLog = <<>>
    /\ node_chain \in Chains
    /\ build \in DOMAIN Builds
    /\ height = 0
    /\ pc = "idle"
    /\ pending = {}
    /\ running = NoUpgrade
    /\ topdown_hash = <<>>
    /\ trace = <<>>
    /\ calls = <<>>
    /\ patch_ret = "none"
    /\ result = "none"
    /\ fired = {}
    /\ invocations = <<>>
    /\ state = [a \in Addresses |-> InitStorage]
    /\ pre_state = [a \in Addresses |-> InitStorage]

Nodes == 1..2

\* what a node holds of the parent chain: its block hash at topdown_height
NodeLocals == {[parent_block_hash |-> h] : h \in {TOPDOWN_HASH, OTHER_HASH}}

\* chain states a patch may start from
PreStates ==
    {[a \in Addresses |-> InitStorage],
     [a \in Addresses |->
         [validator_changes |-> <<>>,
          parent_finality |-> ParentFinality(topdown_height - 1, OTHER_HASH)]]}

\* an execution of the patch about to run its first statement on st
Execution(st) ==
    [pc |-> first_step, topdown_hash |-> <<>>, trace |-> <<>>, calls |-> <<>>,
     state |-> st, pre_state |-> st, ret |-> "none"]

FacetMethods == {"store_validator_changes", "commit_parent_finality"}

\* no second execution is under way
InitExecutions ==
    /\ executions = [n \in Nodes |-> Execution([a \in Addresses |-> InitStorage])]
    /\ node_local = [n \in Nodes |-> [parent_block_hash |-> TOPDOWN_HASH]]
    /\ facet_reverts = [f \in FacetMethods |-> FALSE]

NotParsed == Err("not parsed")

\* parse_logs not called on its own
InitParse ==
    /\ hex_text = ""
    /\ plain_logs = NotParsed
    /\ prefixed_logs = NotParsed

\* a node with its scheduler; its handler holds an empty pool
Init ==
    /\ InitUpgrades
    /\ InitHandler
    /\ pool = <<>>
    /\ InitExecutions
    /\ InitParse

(***************************************************************************)
(* Registration.                                                           *)
(***************************************************************************)
\* one call of add, made directly (via = "add") or by
\* store_missing_validator_changes, which returns `returned`
Register(upgrade, via, arg, returned) ==
    /\ phase = "Registering"
    /\ Len(addLog) < MaxAdds
    /\ entries' = add_entries(entries, upgrade)
    /\ addLog' = Append(addLog, [via |-> via, arg |-> arg, upgrade |-> upgrade,
                                 result |-> returned])
    /\ UNCHANGED <<phase, env_vars, height, pc, pending, running, topdown_hash,
                   trace, calls, patch_ret, result, fired, invocations, state,
                   pre_state>>

Add ==
    \E c \in Chains, h \in Heights :
        LET upgrade == Upgrade_new_by_id(c, h, None, "other") IN
        Register(upgrade, "add", h, add_result(entries, upgrade))

StoreMissingValidatorChanges ==
    \E block_height \in Heights :
        Register(upgrade01(block_height), "store_missing_validator_changes",
                 block_height,
                 store_missing_validator_changes_result(
                     add_result(entries, upgrade01(block_height))))

\* block execution begins: no add from here on
Seal ==
    /\ phase = "Registering"
    /\ phase' = "Sealed"
    /\ UNCHANGED <<entries, addLog, env_vars, height, pc, pending, running,
                   topdown_hash, trace, calls, patch_ret, result, fired,
                   invocations, state, pre_state>>

(***************************************************************************)
(* maybe_apply and the patch.                                              *)
(***************************************************************************)
\* the loop's call for the next height: no descriptor gives Ok at once
MaybeApply ==
    /\ phase = "Sealed"
    /\ pc = "idle"
    /\ result \in {"none", "Ok"}
    /\ height < MaxHeight
    /\ height' = next_height(height)
    /\ LET found == get(entries, node_chain, height') IN
       /\ pending' = found
       /\ pc' = IF found = {} THEN "idle" ELSE "firing"
       /\ result' = IF found = {} THEN "Ok" ELSE "none"
    /\ patch_ret' = "none"
    /\ UNCHANGED <<sched_vars, env_vars, running, topdown_hash, trace, calls,
                   fired, invocations, state, pre_state>>

\* the patch of a descriptor found is invoked
Fire ==
    /\ pc = "firing"
    /\ \E upgrade \in pending :
        /\ running' = upgrade
        /\ pending' = pending \ {upgrade}
        /\ invocations' = Append(invocations,
                                 [upgrade |-> upgrade, chain_id |-> node_chain,
                                  height |-> height])
        /\ pc' = IF upgrade.migration = "upgrade01" THEN first_step ELSE "other"
    /\ trace' = <<>>
    /\ calls' = <<>>
    /\ topdown_hash' = <<>>
    /\ patch_ret' = "none"
    /\ pre_state' = state
    /\ UNCHANGED <<sched_vars, env_vars, height, result, fired, state>>

\* the patch returns ret: Ok marks the upgrade fired, an error ends the call
Return(ret) ==
    /\ patch_ret' = ret
    /\ IF ret = "Ok"
       THEN /\ fired' = fired \cup {UpgradeKey(running)}
            /\ pc' = IF pending = {} THEN "idle" ELSE "firing"
            /\ result' = IF pending = {} THEN "Ok" ELSE result
       ELSE /\ fired' = fired
            /\ pc' = "idle"
            /\ result' = maybe_apply_result(ret)

\* the patch goes on to the step after `step`
Continue(step) ==
    IF step_after(step) = "return"
    THEN Return("Ok")
    ELSE /\ pc' = step_after(step)
         /\ UNCHANGED <<patch_ret, result, fired>>

\* a failure that is dropped
Try_ignore(ok, err, step) == Continue(step)

\* the `?` after a step: go on when it succeeded, return its error otherwise
Try(ok, err, step) == IF ok THEN Continue(step) ELSE Return(err)

Step(step) ==
    /\ pc = step
    /\ trace' = Append(trace, step)
    /\ UNCHANGED <<sched_vars, env_vars, height, pending, running, invocations,
                   pre_state>>

PatchDecodeHash ==
    /\ Step("decode_hash")
    /\ LET d == decode_topdown_hash(Builds[build].topdown_hash_hex) IN
       /\ topdown_hash' = d.value
       /\ Try(d.ok, d.err, "decode_hash")
    /\ UNCHANGED <<calls, state>>

PatchCheckHash ==
    /\ Step("check_hash")
    /\ IF hash_not_equal(topdown_hash, Builds[build].topdown_hash_hex)
       THEN Return("hash not equal")
       ELSE Continue("check_hash")
    /\ UNCHANGED <<topdown_hash, calls, state>>

PatchParseLogs ==
    /\ Step("parse_logs")
    /\ LET logs == logs_of[build] IN Try(logs.ok, logs.err, "parse_logs")
    /\ UNCHANGED <<topdown_hash, calls, state>>

PatchDecodeLogs ==
    /\ Step("decode_logs")
    /\ LET events == events_of[build] IN
       Try(events.ok, events.err, "decode_logs")
    /\ UNCHANGED <<topdown_hash, calls, state>>

\* validator_changes as the patch holds it once both decodings succeeded
validator_changes ==
    [b \in DOMAIN Builds |-> validator_changes_of(events_of[b].value)]

PatchStoreValidatorChanges ==
    /\ Step("store_validator_changes")
    /\ \E reverted \in BOOLEAN :
        /\ calls' = Append(calls, Call("store_validator_changes", gateway_addr,
                                       validator_changes[build],
                                       ParentFinality(0, <<>>), reverted))
        /\ state' = IF reverted THEN state
                    ELSE store_validator_changes(state, gateway_addr,
                                                 validator_changes[build])
        /\ Try(~reverted, "ContractCallError", "store_validator_changes")
    /\ UNCHANGED topdown_hash

\* a finality call whose failure takes the staking call back
PatchCommitParentFinality_rollback ==
    /\ Step("commit_parent_finality")
    /\ \E reverted \in BOOLEAN :
        /\ calls' = Append(calls, Call("commit_parent_finality", gateway_addr,
                                       <<>>, finality_of(topdown_hash), reverted))
        /\ state' = IF reverted THEN pre_state
                    ELSE commit_parent_finality(state, gateway_addr,
                                                finality_of(topdown_hash))
        /\ Try(~reverted, "ContractCallError", "commit_parent_finality")
    /\ UNCHANGED topdown_hash

PatchCommitParentFinality ==
    /\ Step("commit_parent_finality")
    /\ \E reverted \in BOOLEAN :
        /\ calls' = Append(calls, Call("commit_parent_finality", gateway_addr,
                                       <<>>, finality_of(topdown_hash), reverted))
        /\ state' = IF reverted THEN state
                    ELSE commit_parent_finality(state, gateway_addr,
                                                finality_of(topdown_hash))
        /\ Try(~reverted, "ContractCallError", "commit_parent_finality")
    /\ UNCHANGED topdown_hash

\* a patch other than upgrade01's: it succeeds or fails
PatchOther ==
    /\ Step("other")
    /\ \E failed \in BOOLEAN :
        IF failed THEN Return("PatchError") ELSE Return("Ok")
    /\ UNCHANGED <<topdown_hash, calls, state>>

Next ==
    \/ Add
    \/ StoreMissingValidatorChanges
    \/ Seal
    \/ MaybeApply
    \/ Fire
    \/ PatchDecodeHash
    \/ PatchCheckHash
    \/ PatchParseLogs
    \/ PatchDecodeLogs
    \/ PatchStoreValidatorChanges
    \/ PatchCommitParentFinality
    \/ PatchOther

Spec == Init /\ [][Next]_vars

(***************************************************************************)
(* BlockHashHandler::handle, one statement at a time.                      *)
(***************************************************************************)
\* a request arrives once the one before it was answered
Request ==
    /\ handle_pc \in {"idle", "done"}
    /\ served < MaxRequests
    /\ \E subnet_id \in SubnetIdStrings, h \in 0..MaxEpoch :
        request' = BlockHashParams(subnet_id, h)
    /\ handle_pc' = "from_str"
    /\ handle_trace' = <<>>
    /\ queries' = <<>>
    /\ response' = NoResponse
    /\ served' = served + 1
    /\ UNCHANGED <<pool, upgrade_vars, executions, node_local, facet_reverts,
                   parse_vars>>

HandleReturn(r) ==
    /\ response' = r
    /\ handle_pc' = "done"

HandleContinue(step) ==
    /\ handle_pc' = handle_after(step)
    /\ UNCHANGED response

HandleStep(step) ==
    /\ handle_pc = step
    /\ handle_trace' = Append(handle_trace, step)
    /\ UNCHANGED <<pool, request, served, upgrade_vars, executions, node_local,
                   facet_reverts, parse_vars>>

\* let subnet = SubnetID::from_str(&request.subnet_id)?;
HandleFromStr ==
    /\ HandleStep("from_str")
    /\ LET subnet == SubnetID_from_str(request.subnet_id) IN
       IF subnet.ok THEN HandleContinue("from_str")
       ELSE HandleReturn(Err(subnet.err))
    /\ UNCHANGED queries

\* let conn = match self.pool.get(&subnet) { None => return Err(..), .. };
HandlePoolGet ==
    /\ HandleStep("pool_get")
    /\ LET subnet == SubnetID_from_str(request.subnet_id).value
           found == pool_get(pool, subnet)
       IN  IF found.some THEN HandleContinue("pool_get")
           ELSE HandleReturn(Err("target parent subnet not found"))
    /\ UNCHANGED queries

\* check_subnet(conn.subnet())?;
HandleCheckSubnet ==
    /\ HandleStep("check_subnet")
    /\ LET subnet == SubnetID_from_str(request.subnet_id).value
           conn == pool_get(pool, subnet).conn
           checked == check_subnet(conn.subnet)
       IN  IF checked.ok THEN HandleContinue("check_subnet")
           ELSE HandleReturn(Err(checked.err))
    /\ UNCHANGED queries

\* conn.manager().get_block_hash(request.height).await
HandleGetBlockHash ==
    /\ HandleStep("get_block_hash")
    /\ LET subnet == SubnetID_from_str(request.subnet_id).value
           conn == pool_get(pool, subnet).conn
       IN  /\ queries' = Append(queries, [subnet |-> conn.subnet.id,
                                          height |-> request.height])
           /\ \E failed \in BOOLEAN :
               HandleReturn(IF failed THEN Err("query failed")
                            ELSE Ok(block_hash_at(conn.subnet.id, request.height)))

InitRpc ==
    /\ InitUpgrades
    /\ node_chain = CHAIN_ID
    /\ build = 1
    /\ InitHandler
    /\ InitExecutions
    /\ InitParse

NextRpc ==
    \/ Request
    \/ HandleFromStr
    \/ HandlePoolGet
    \/ HandleCheckSubnet
    \/ HandleGetBlockHash

SpecRpc == InitRpc /\ [][NextRpc]_vars

(***************************************************************************)
(* Two executions of the patch of upgrade01, statement by statement: the   *)
(* closure as a function of the build, the node and the execution so far.  *)
(***************************************************************************)
\* the text the decoded digest is compared with, taken from the node
compared_hash_hex_local(b, local) == hex_encode(local.parent_block_hash)

\* the text the decoded digest is compared with: the compiled-in constant
compared_hash_hex(b, local) == Builds[b].topdown_hash_hex

ExecReturn(e, ret) == [e EXCEPT !.pc = "done", !.ret = ret]

ExecContinue(e, step) ==
    IF step_after(step) = "return" THEN ExecReturn(e, "Ok")
    ELSE [e EXCEPT !.pc = step_after(step)]

ExecTry(e, ok, err, step) ==
    IF ok THEN ExecContinue(e, step) ELSE ExecReturn(e, err)

\* the statement at e.pc, run on execution e
patch_statement(b, local, reverts, e) ==
    LET t == [e EXCEPT !.trace = Append(@, e.pc)] IN
    CASE e.pc = "decode_hash" ->
            LET d == decode_topdown_hash(Builds[b].topdown_hash_hex) IN
            ExecTry([t EXCEPT !.topdown_hash = d.value], d.ok, d.err, e.pc)
      [] e.pc = "check_hash" ->
            IF hash_not_equal(t.topdown_hash, compared_hash_hex(b, local))
            THEN ExecReturn(t, "hash not equal")
            ELSE ExecContinue(t, e.pc)
      [] e.pc = "parse_logs" ->
            ExecTry(t, logs_of[b].ok, logs_of[b].err, e.pc)
      [] e.pc = "decode_logs" ->
            ExecTry(t, events_of[b].ok, events_of[b].err, e.pc)
      [] e.pc = "store_validator_changes" ->
            LET reverted == reverts[e.pc]
                changes == validator_changes_of(events_of[b].value)
            IN  ExecTry([t EXCEPT
                           !.calls = Append(@, Call(e.pc, gateway_addr, changes,
                                                    ParentFinality(0, <<>>),
                                                    reverted)),
                           !.state = IF reverted THEN @
                                     ELSE store_validator_changes(@, gateway_addr,
                                                                  changes)],
                        ~reverted, "ContractCallError", e.pc)
      [] e.pc = "commit_parent_finality" ->
            LET reverted == reverts[e.pc]
                finality == finality_of(t.topdown_hash)
            IN  ExecTry([t EXCEPT
                           !.calls = Append(@, Call(e.pc, gateway_addr, <<>>,
                                                    finality, reverted)),
                           !.state = IF reverted THEN @
                                     ELSE commit_parent_finality(@, gateway_addr,
                                                                 finality)],
                        ~reverted, "ContractCallError", e.pc)

\* node n runs the next statement of its execution
Execute(n) ==
    /\ executions[n].pc # "done"
    /\ executions' = [executions EXCEPT
                         ![n] = patch_statement(build, node_local[n],
                                                facet_reverts, executions[n])]
    /\ UNCHANGED <<upgrade_vars, rpc_vars, node_local, facet_reverts, parse_vars>>

\* two nodes, each about to run the patch of the same build; the facets are
\* the same code at both, so a call one reverts the other reverts too
InitTwo ==
    /\ InitUpgrades
    /\ node_chain = CHAIN_ID
    /\ InitHandler
    /\ pool = <<>>
    /\ \E st \in [Nodes -> PreStates] :
        executions = [n \in Nodes |-> Execution(st[n])]
    /\ node_local \in [Nodes -> NodeLocals]
    /\ facet_reverts \in [FacetMethods -> BOOLEAN]
    /\ InitParse

NextTwo == \E n \in Nodes : Execute(n)

SpecTwo == InitTwo /\ [][NextTwo]_vars

(***************************************************************************)
(* parse_logs called on one string, without and with the 0x prefix.        *)
(***************************************************************************)
MaxLen == 4

\* characters of the strings tried: hexadecimal digits of both cases, the x
\* of the prefix and a character that is not hexadecimal
StringChars == {"0", "1", "a", "F", "x", "g"}

RECURSIVE StringsUpTo(_)
\* the strings of at most n characters
StringsUpTo(n) ==
    IF n = 0 THEN {""}
    ELSE LET shorter == StringsUpTo(n - 1) IN
         shorter \cup {s \o c : s \in shorter, c \in StringChars}

\* parse_logs(vec![s])
ParsePlain ==
    /\ plain_logs = NotParsed
    /\ plain_logs' = parse_logs(<<hex_text>>)
    /\ UNCHANGED <<upgrade_vars, rpc_vars, executions, node_local,
                   facet_reverts, hex_text, prefixed_logs>>

\* parse_logs(vec!["0x" + s])
ParsePrefixed ==
    /\ prefixed_logs = NotParsed
    /\ prefixed_logs' = parse_logs(<<"0x" \o hex_text>>)
    /\ UNCHANGED <<upgrade_vars, rpc_vars, executions, node_local,
                   facet_reverts, hex_text, plain_logs>>

InitParseLogs ==
    /\ InitUpgrades
    /\ node_chain = CHAIN_ID
    /\ build = 1
    /\ InitHandler
    /\ pool = <<>>
    /\ InitExecutions
    /\ hex_text \in StringsUpTo(MaxLen)
    /\ plain_logs = NotParsed
    /\ prefixed_logs = NotParsed

NextParseLogs == ParsePlain \/ ParsePrefixed

SpecParseLogs == InitParseLogs /\ [][NextParseLogs]_vars

(***************************************************************************)
(* Claims.                                                                 *)
(***************************************************************************)
Range(seq) == {seq[i] : i \in DOMAIN seq}

\* the invocations of the patch of descriptor `upgrade`
InvocationsOf(upgrade) ==
    {i \in DOMAIN invocations : invocations[i].upgrade = upgrade}

\* C1: with maybe_apply called once per height, heights strictly increasing,
\* the patch of each registered descriptor is invoked at most once.
C1_AtMostOnce ==
    \A k \in DOMAIN entries : Cardinality(InvocationsOf(entries[k])) <= 1

\* a descriptor was invoked and the loop has gone on to a later height
C1_Witness ==
    \E k \in DOMAIN entries :
        /\ Cardinality(InvocationsOf(entries[k])) = 1
        /\ height > k[2]
        /\ pc = "idle"
        /\ result = "Ok"

\* C2: one maybe_apply call invokes the patch of at most one descriptor,
\* whatever sequence of adds built the registry.
C2_AtMostOnePerCall ==
    /\ Cardinality(pending) <= 1
    /\ \A h \in Heights :
          Cardinality({i \in DOMAIN invocations :
                          invocations[i].height = h}) <= 1

\* two chains have a descriptor at the height just executed; one patch ran
C2_Witness ==
    /\ pc = "idle"
    /\ result = "Ok"
    /\ \A c \in Chains : <<c, height>> \in DOMAIN entries
    /\ Cardinality({i \in DOMAIN invocations :
                       invocations[i].height = height}) = 1

\* the first call of add for the key of the i-th call
FirstAdd(i) ==
    CHOOSE j \in 1..i :
        /\ UpgradeKey(addLog[j].upgrade) = UpgradeKey(addLog[i].upgrade)
        /\ \A l \in 1..(j - 1) :
              UpgradeKey(addLog[l].upgrade) # UpgradeKey(addLog[i].upgrade)

\* C3: an add whose (chain_id, height) key is already registered fails with
\* DuplicateKeyError whichever descriptor came first, and the registry keeps
\* the entry it had; so does a second store_missing_validator_changes with
\* the same block_height.
C3_DuplicateKey ==
    \A i \in DOMAIN addLog :
        /\ addLog[i].result = IF FirstAdd(i) < i THEN "DuplicateKeyError" ELSE "Ok"
        /\ UpgradeKey(addLog[i].upgrade) \in DOMAIN entries
        /\ entries[UpgradeKey(addLog[i].upgrade)] = addLog[FirstAdd(i)].upgrade
        /\ Cardinality(DOMAIN entries) =
               Cardinality({UpgradeKey(addLog[j].upgrade) : j \in DOMAIN addLog})

\* store_missing_validator_changes registered a key first, add of another
\* descriptor with that key failed
C3_Witness ==
    /\ Len(addLog) = 2
    /\ addLog[1].via = "store_missing_validator_changes"
    /\ addLog[2].via = "add"
    /\ addLog[2].result = "DuplicateKeyError"
    /\ entries[UpgradeKey(addLog[2].upgrade)] = addLog[1].upgrade

\* C4: maybe_apply for a (chain_id, height) with no entry returns success,
\* invokes no patch and leaves the chain state and the registry unchanged.
C4_NoEntryNoOp ==
    [][(/\ phase = "Sealed"
        /\ pc = "idle"
        /\ height' # height
        /\ <<node_chain, height'>> \notin DOMAIN entries)
       => (/\ result' = "Ok"
           /\ pc' = "idle"
           /\ pending' = {}
           /\ invocations' = invocations
           /\ fired' = fired
           /\ state' = state
           /\ entries' = entries)]_vars

\* a call found no entry at its height although the node's chain has one
\* at a lower height
C4_Witness ==
    /\ pc = "idle"
    /\ result = "Ok"
    /\ height >= 2
    /\ <<node_chain, height>> \notin DOMAIN entries
    /\ \E k \in DOMAIN entries : k[1] = node_chain /\ k[2] < height

\* C5: the patch registered by store_missing_validator_changes(scheduler, h)
\* is invoked only by a call whose chain identity is CHAIN_ID and whose
\* height is h.
C5_OnlyAtItsKey ==
    \A j \in DOMAIN addLog : \A i \in DOMAIN invocations :
        (/\ addLog[j].via = "store_missing_validator_changes"
         /\ addLog[j].result = "Ok"
         /\ invocations[i].upgrade = addLog[j].upgrade)
        => (/\ invocations[i].chain_id = "CHAIN_ID"
            /\ invocations[i].height = addLog[j].arg)

\* the registered patch ran to its end, after a height at which it did not
C5_Witness ==
    /\ pc = "idle"
    /\ running.migration = "upgrade01"
    /\ patch_ret = "Ok"
    /\ height >= 2
    /\ \E j \in DOMAIN addLog :
          /\ addLog[j].via = "store_missing_validator_changes"
          /\ addLog[j].upgrade = running
          /\ addLog[j].arg = height

\* the error the i-th step of the running patch gave, "none" if it gave none
StepError(i) ==
    LET step == trace[i]
        hash_hex == Builds[build].topdown_hash_hex
        facet_calls == Cardinality({j \in 1..i : trace[j] \in
                           {"store_validator_changes", "commit_parent_finality"}})
    IN  CASE step = "decode_hash" ->
               IF ~hex_decode(hash_hex).ok THEN hex_decode(hash_hex).err
               ELSE IF Len(hex_decode(hash_hex).value) # 32
                    THEN "cannot convert vec to bytes32" ELSE "none"
          [] step = "check_hash" ->
               IF hex_encode(topdown_hash) # hash_hex
               THEN "hash not equal" ELSE "none"
          [] step = "parse_logs" -> logs_of[build].err
          [] step = "decode_logs" -> events_of[build].err
          [] step \in {"store_validator_changes", "commit_parent_finality"} ->
               IF calls[facet_calls].reverted THEN "ContractCallError" ELSE "none"
          [] OTHER -> IF patch_ret = "PatchError" THEN patch_ret ELSE "none"

\* C6: when the patch returns an error at any step, maybe_apply returns that
\* error, the upgrade does not reach Fired, and no step of the patch is
\* run again or after the failure.
C6_ErrorIsFatal ==
    /\ patch_ret \notin {"none", "Ok"}
        => (/\ pc = "idle"
            /\ result = patch_ret
            /\ UpgradeKey(running) \notin fired)
    /\ Cardinality(Range(trace)) = Len(trace)
    /\ \A i \in DOMAIN trace :
          StepError(i) # "none" => (i = Len(trace) /\ patch_ret = StepError(i))

\* the patch failed in decode_logs, its fourth step
C6_Witness ==
    /\ patch_ret = "DecodeError"
    /\ result = "DecodeError"
    /\ trace = <<"decode_hash", "check_hash", "parse_logs", "decode_logs">>

\* the digest check was made in this execution and failed
DigestCheckFailed ==
    /\ "check_hash" \in Range(trace)
    /\ hex_encode(topdown_hash) # Builds[build].topdown_hash_hex

\* C7: in an execution in which the digest check fails, commit_parent_finality
\* is never invoked and the patch ends with the verification error.
C7_NoCommitAfterFailedCheck ==
    DigestCheckFailed
    => (/\ patch_ret = "hash not equal"
        /\ pc = "idle"
        /\ \A i \in DOMAIN calls : calls[i].method # "commit_parent_finality")

\* the check failed on a digest of 32 bytes and the call has returned
C7_Witness ==
    /\ DigestCheckFailed
    /\ Len(topdown_hash) = 32
    /\ result = "hash not equal"

\* C8: in an execution in which the digest check fails, every facet's state
\* after the patch is its state before it: neither store_validator_changes
\* nor commit_parent_finality has been applied.
C8_FailedCheckLeavesState ==
    DigestCheckFailed => (state = pre_state /\ calls = <<>>)

\* the check failed in a build whose blobs would have decoded
C8_Witness ==
    /\ DigestCheckFailed
    /\ patch_ret = "hash not equal"
    /\ events_of[build].ok
    /\ Len(validator_changes[build]) > 0

\* C9: the digest compared with the compiled-in value is obtained
\* independently of it (here: the parent chain's block hash at
\* topdown_height), so a digest that differs from the compiled-in value makes
\* the patch end with the verification error.
C9_CheckNotVacuous ==
    (/\ "check_hash" \in Range(trace)
     /\ hex_encode(Builds[build].parent_block_hash) # Builds[build].topdown_hash_hex)
    => patch_ret = "hash not equal"

\* C10: whenever commit_parent_finality is invoked, its argument carries
\* height 1531770 and a 32-byte block_hash equal to the digest that passed
\* the check in the same execution.
C10_CommittedFinality ==
    \A i \in DOMAIN calls :
        calls[i].method = "commit_parent_finality"
        => (/\ calls[i].finality.height = 1531770
            /\ Len(calls[i].finality.block_hash) = 32
            /\ calls[i].finality.block_hash = topdown_hash
            /\ "check_hash" \in Range(trace)
            /\ hex_encode(calls[i].finality.block_hash) =
                   Builds[build].topdown_hash_hex)

\* commit_parent_finality was invoked and applied
C10_Witness ==
    /\ \E i \in DOMAIN calls :
          calls[i].method = "commit_parent_finality" /\ ~calls[i].reverted
    /\ state[gateway_addr].parent_finality.height = 1531770
    /\ patch_ret = "Ok"

\* the bytes the text of a blob stands for, read apart from parse_logs
BlobBytes(text) ==
    hex_decode(IF Len(text) >= 2 /\ SubSeq(text, 1, 2) = "0x"
               THEN SubSeq(text, 3, Len(text)) ELSE text).value

RECURSIVE EventsOfBlobs(_)
\* the event decoded from each blob of a list, one by one
EventsOfBlobs(texts) ==
    IF texts = <<>> THEN <<>>
    ELSE <<decode_log(RawLog(BlobBytes(Head(texts)),
                             <<NewStakingChangeRequest_signature>>)).value>>
         \o EventsOfBlobs(Tail(texts))

BlobEvents ==
    [b \in DOMAIN Builds |->
        EventsOfBlobs(Builds[b].raw_configuration_changes)]

RECURSIVE NumbersOfBlobs(_)
\* the configuration number written in each blob of a list: the low eight
\* bytes of its fourth word (nothing for a blob shorter than four words)
NumbersOfBlobs(texts) ==
    IF texts = <<>> THEN <<>>
    ELSE <<IF Len(BlobBytes(Head(texts))) >= 128
           THEN SubSeq(BlobBytes(Head(texts)), 121, 128) ELSE <<>> >>
         \o NumbersOfBlobs(Tail(texts))

BlobConfigurationNumbers ==
    [b \in DOMAIN Builds |->
        NumbersOfBlobs(Builds[b].raw_configuration_changes)]

\* a < b for two big-endian numbers of the same length
BytesLess(a, b) ==
    \E k \in DOMAIN a :
        a[k] < b[k] /\ \A l \in 1..(k - 1) : a[l] = b[l]

\* each number below the one after it
StrictlyAscending(numbers) ==
    \A i \in 1..(Len(numbers) - 1) : BytesLess(numbers[i], numbers[i + 1])

\* C11: the batch passed to store_validator_changes has, at each position i,
\* the configuration number, operation code, validator and payload of the
\* event decoded from the i-th raw blob: nothing reordered, dropped or
\* duplicated, so ascending numbers in the input give an ascending batch.
C11_BatchFollowsInput ==
    \A c \in DOMAIN calls :
        calls[c].method = "store_validator_changes"
        => LET batch == calls[c].changes
               events == BlobEvents[build]
               numbers == BlobConfigurationNumbers[build]
           IN  /\ Len(batch) = Len(Builds[build].raw_configuration_changes)
               /\ \A i \in DOMAIN batch :
                     /\ batch[i].configuration_number = numbers[i]
                     /\ batch[i].configuration_number =
                            events[i].configuration_number
                     /\ batch[i].change.op = events[i].op
                     /\ batch[i].change.validator = events[i].validator
                     /\ batch[i].change.payload = events[i].payload
               /\ StrictlyAscending(numbers)
                     => StrictlyAscending(
                            [i \in DOMAIN batch |-> batch[i].configuration_number])

\* the 49 blobs of the source were passed, with ascending numbers
C11_Witness ==
    /\ calls # <<>>
    /\ calls[1].method = "store_validator_changes"
    /\ Len(calls[1].changes) = 49
    /\ StrictlyAscending(BlobConfigurationNumbers[build])
    /\ calls[1].changes[1].change.validator # calls[1].changes[2].change.validator

HexDigitChars ==
    {"0", "1", "2", "3", "4", "5", "6", "7", "8", "9",
     "a", "b", "c", "d", "e", "f", "A", "B", "C", "D", "E", "F"}

\* text is an even number of hexadecimal digits, after an optional 0x
WellFormedHex(text) ==
    LET t == IF Len(text) >= 2 /\ SubSeq(text, 1, 2) = "0x"
             THEN SubSeq(text, 3, Len(text)) ELSE text
    IN  /\ Len(t) % 2 = 0
        /\ \A i \in 1..Len(t) : CharAt(t, i) \in HexDigitChars

\* every blob of the build is well-formed hexadecimal text
BlobsWellFormed ==
    [b \in DOMAIN Builds |->
        \A i \in DOMAIN Builds[b].raw_configuration_changes :
            WellFormedHex(Builds[b].raw_configuration_changes[i])]

\* every blob of the build, taken alone, has the layout of the event
BlobsHaveLayout ==
    [b \in DOMAIN Builds |->
        \A i \in DOMAIN Builds[b].raw_configuration_changes :
            decode_log(RawLog(BlobBytes(Builds[b].raw_configuration_changes[i]),
                              <<NewStakingChangeRequest_signature>>)).ok]

\* parse_logs gave one log per blob: the blob's bytes and the one topic
LogsFollowBlobs ==
    [b \in DOMAIN Builds |->
        LET raw == Builds[b].raw_configuration_changes
            logs == logs_of[b]
        IN  /\ logs.ok
            /\ Len(logs.value) = Len(raw)
            /\ \A i \in DOMAIN raw :
                /\ logs.value[i].data = BlobBytes(raw[i])
                /\ logs.value[i].topics = <<NewStakingChangeRequest_signature>>]

\* decode_logs gave one event per blob, the i-th from the i-th blob
EventsFollowBlobs ==
    [b \in DOMAIN Builds |->
        /\ events_of[b].ok
        /\ Len(events_of[b].value) = Len(Builds[b].raw_configuration_changes)
        /\ events_of[b].value = BlobEvents[b]]

\* C12 as stated: for N well-formed hex strings parse_logs returns N logs,
\* the i-th with the i-th string's bytes and the one topic, and decoding
\* them yields N events.
C12_Original ==
    ("decode_logs" \in Range(trace) /\ BlobsWellFormed[build]) =>
        LogsFollowBlobs[build] /\ EventsFollowBlobs[build]

\* C12: for N well-formed hex strings parse_logs returns N logs, the i-th
\* with the i-th string's bytes and exactly the one configuration-change
\* topic, and the patch goes on to decode_logs; decoding them yields N
\* events in the same order when every blob has the event's layout, and
\* DecodeError otherwise.
C12_ParseLogsPerBlob ==
    ("parse_logs" \in Range(trace) /\ BlobsWellFormed[build]) =>
        /\ LogsFollowBlobs[build]
        /\ trace[Len(trace)] = "parse_logs" => pc = "decode_logs"
        /\ "decode_logs" \in Range(trace) =>
            IF BlobsHaveLayout[build]
            THEN EventsFollowBlobs[build] /\ patch_ret # "DecodeError"
            ELSE ~events_of[build].ok /\ patch_ret = "DecodeError"

\* blobs with and without the 0x prefix were parsed and decoded
C12_Witness ==
    LET raw == Builds[build].raw_configuration_changes IN
    /\ BlobsWellFormed[build]
    /\ \E i, j \in DOMAIN raw :
        starts_with_0x(raw[i]) /\ ~starts_with_0x(raw[j])
    /\ trace # <<>>
    /\ trace[Len(trace)] = "decode_logs"
    /\ pc = "store_validator_changes"
    /\ Len(events_of[build].value) = 3

\* C13: a successful application of upgrade01 calls only the gateway at
\* 0x77aa40b105843728088c0132e43fc44348881da8, and the state at every other
\* address after the patch equals its state before the patch.
C13_OnlyGatewayChanges ==
    (running.migration = "upgrade01" /\ patch_ret = "Ok") =>
        /\ \A c \in DOMAIN calls :
            calls[c].addr = "0x77aa40b105843728088c0132e43fc44348881da8"
        /\ \A a \in DOMAIN state :
            a # "0x77aa40b105843728088c0132e43fc44348881da8"
                => state[a] = pre_state[a]

\* upgrade01 succeeded: the gateway's state changed, another address exists
C13_Witness ==
    /\ running.migration = "upgrade01"
    /\ patch_ret = "Ok"
    /\ Len(calls) = 2
    /\ state["0x77aa40b105843728088c0132e43fc44348881da8"]
           # pre_state["0x77aa40b105843728088c0132e43fc44348881da8"]
    /\ \E a \in DOMAIN state :
        a # "0x77aa40b105843728088c0132e43fc44348881da8"

\* the calls of add that succeeded, by position in registration order
SucceededAdds == {i \in DOMAIN addLog : addLog[i].result = "Ok"}

\* C15 as stated: the heights of the descriptors registered for one chain
\* are strictly increasing in registration order.
C15_Original ==
    \A i, j \in SucceededAdds :
        (i < j /\ addLog[i].upgrade.chain_id = addLog[j].upgrade.chain_id)
            => addLog[i].upgrade.block_height < addLog[j].upgrade.block_height

\* C15: after any sequence of adds that succeeded, no height is used by two
\* descriptors of one chain, and each is registered under its own
\* (chain_id, height) key; the heights may come in any registration order.
C15_HeightsNeverReused ==
    \A i, j \in SucceededAdds :
        /\ (i # j /\ addLog[i].upgrade.chain_id = addLog[j].upgrade.chain_id)
              => addLog[i].upgrade.block_height # addLog[j].upgrade.block_height
        /\ UpgradeKey(addLog[i].upgrade) \in DOMAIN entries
        /\ entries[UpgradeKey(addLog[i].upgrade)] = addLog[i].upgrade

\* two adds for one chain succeeded, the later one at the lower height
C15_Witness ==
    \E i, j \in SucceededAdds :
        /\ i < j
        /\ addLog[i].upgrade.chain_id = addLog[j].upgrade.chain_id
        /\ addLog[i].upgrade.block_height > addLog[j].upgrade.block_height
        /\ addLog[i].via = "store_missing_validator_changes"
        /\ Cardinality(DOMAIN entries) = 2

\* the position of step in order, 0 when it is not there
PositionIn(order, step) ==
    IF step \in Range(order)
    THEN CHOOSE k \in DOMAIN order : order[k] = step
    ELSE 0

\* the steps of trace that order names occur in the order it gives
FollowsOrder(order) ==
    \A i, j \in DOMAIN trace :
        (i < j /\ trace[i] \in Range(order) /\ trace[j] \in Range(order))
            => PositionIn(order, trace[i]) < PositionIn(order, trace[j])

C17_StakingStaysAfterFailedFinality ==
    (/\ Len(calls) = 2
     /\ calls[1].method = "store_validator_changes" /\ ~calls[1].reverted
     /\ calls[2].method = "commit_parent_finality" /\ calls[2].reverted) =>
        /\ patch_ret = "ContractCallError"
        /\ result = "ContractCallError"
        /\ pc = "idle"
        /\ UpgradeKey(running) \notin fired
        /\ state[calls[1].addr].validator_changes =
               pre_state[calls[1].addr].validator_changes \o calls[1].changes
        /\ state[calls[1].addr].parent_finality =
               pre_state[calls[1].addr].parent_finality
        /\ state # pre_state

\* the staking call went through with 49 requests, the finality call failed
C17_Witness ==
    /\ Len(calls) = 2
    /\ ~calls[1].reverted
    /\ calls[2].reverted
    /\ Len(calls[1].changes) = 49
    /\ Len(state[calls[1].addr].validator_changes) = 49
    /\ patch_ret = "ContractCallError"

CallsOf(method) == {c \in DOMAIN calls : calls[c].method = method}

\* C18: in one execution of the patch store_validator_changes is invoked at
\* most once, with the requests of every compiled-in blob in that one call;
\* commit_parent_finality is invoked at most once and only after
\* store_validator_changes returned success.
C18_OneCallEach ==
    /\ Cardinality(CallsOf("store_validator_changes")) <= 1
    /\ Cardinality(CallsOf("commit_parent_finality")) <= 1
    /\ \A c \in CallsOf("store_validator_changes") :
        /\ Len(calls[c].changes) = Len(Builds[build].raw_configuration_changes)
        /\ Len(calls[c].changes) = Len(BlobEvents[build])
    /\ \A c \in CallsOf("commit_parent_finality") :
        \E d \in CallsOf("store_validator_changes") :
            d < c /\ ~calls[d].reverted

\* one staking call with all 49 requests, then one finality call
C18_Witness ==
    /\ Cardinality(CallsOf("store_validator_changes")) = 1
    /\ Cardinality(CallsOf("commit_parent_finality")) = 1
    /\ Len(calls[1].changes) = 49
    /\ Len(Builds[build].raw_configuration_changes) = 49
    /\ pc = "idle"

\* C19: when a blob fails hex parsing or a parsed log fails event decoding,
\* the patch returns an error before any facet method is invoked and the
\* chain state is unchanged; parse_logs returns the error alone, with no
\* list of logs.
C19_BadBlobStopsPatch ==
    (/\ running.migration = "upgrade01"
     /\ ~BlobsWellFormed[build] \/ ~BlobsHaveLayout[build]) =>
        /\ calls = <<>>
        /\ state = pre_state
        /\ patch_ret # "Ok"
        /\ UpgradeKey(running) \notin fired
        /\ ~BlobsWellFormed[build] =>
              /\ ~logs_of[build].ok
              /\ logs_of[build].value = <<>>
              /\ "decode_logs" \notin Range(trace)
              /\ "parse_logs" \in Range(trace) =>
                    patch_ret \in {"InvalidHexCharacter", "OddLength"}
        /\ "decode_logs" \in Range(trace) => patch_ret = "DecodeError"

\* the second blob is not hexadecimal: parse_logs failed after a good blob
C19_Witness ==
    LET raw == Builds[build].raw_configuration_changes IN
    /\ running.migration = "upgrade01"
    /\ WellFormedHex(raw[1])
    /\ ~WellFormedHex(raw[2])
    /\ trace = <<"decode_hash", "check_hash", "parse_logs">>
    /\ patch_ret = "InvalidHexCharacter"
    /\ result = "InvalidHexCharacter"

\* the statements of handle, as the source lists them
HandleOrder == <<"from_str", "pool_get", "check_subnet", "get_block_hash">>

\* the subnet id of the request parses
RequestParses == SubnetID_from_str(request.subnet_id).ok

\* the pool holds a connection for the subnet of the request
RequestInPool ==
    /\ RequestParses
    /\ SubnetID_from_str(request.subnet_id).value \in DOMAIN pool

\* check_subnet accepts the configuration of that connection
RequestAccepted ==
    /\ RequestInPool
    /\ pool[SubnetID_from_str(request.subnet_id).value].subnet.accepted

\* C20: handle issues get_block_hash for the requested height only after
\* the subnet id parsed, the pool returned a connection for it and
\* check_subnet accepted its configuration, in that order; when one of the
\* three fails it returns an error and no query is issued, and a missing
\* pool entry gives "target parent subnet not found".
C20_QueryAfterChecks ==
    /\ Len(handle_trace) <= Len(HandleOrder)
    /\ handle_trace = SubSeq(HandleOrder, 1, Len(handle_trace))
    /\ Len(queries) <= 1
    /\ queries # <<>> =>
          /\ handle_trace = HandleOrder
          /\ RequestAccepted
          /\ queries[1].height = request.height
          /\ queries[1].subnet = SubnetID_from_str(request.subnet_id).value
    /\ (handle_pc = "done" /\ ~RequestAccepted) =>
          /\ ~response.ok
          /\ queries = <<>>
          /\ "get_block_hash" \notin Range(handle_trace)
    /\ (handle_pc = "done" /\ RequestParses /\ ~RequestInPool) =>
          /\ response = Err("target parent subnet not found")
          /\ handle_trace = <<"from_str", "pool_get">>
    /\ (handle_pc = "done" /\ ~RequestParses) => handle_trace = <<"from_str">>
    /\ (handle_pc = "done" /\ RequestInPool /\ ~RequestAccepted) =>
          handle_trace = <<"from_str", "pool_get", "check_subnet">>

\* a request for a child subnet in the pool was answered with a block hash
\* after one that named a subnet the pool does not hold
C20_Witness ==
    /\ served = 2
    /\ handle_pc = "done"
    /\ handle_trace = HandleOrder
    /\ response.ok
    /\ Len(queries) = 1
    /\ request.height = 1
    /\ request.subnet_id = "/r31415926/f01"
    /\ \E s \in KnownSubnets : s \notin DOMAIN pool

TextConfigurationNumber(text) ==
    LET t == IF Len(text) >= 2 /\ SubSeq(text, 1, 2) = "0x"
             THEN SubSeq(text, 3, Len(text)) ELSE text
    IN  IF Len(t) < 256 THEN -1
        ELSE IF SubSeq(t, 241, 254) # "00000000000000" THEN -1
        ELSE 16 * val(CharAt(t, 255)) + val(CharAt(t, 256))

RECURSIVE TextNumbers(_)
TextNumbers(texts) ==
    IF texts = <<>> THEN <<>>
    ELSE <<TextConfigurationNumber(Head(texts))>> \o TextNumbers(Tail(texts))

\* the numbers written in the blobs of the source, in list order
SourceConfigurationNumbers == TextNumbers(raw_configuration_changes)

\* a number below 256 as the eight bytes of a u64
U64Bytes(n) == <<0, 0, 0, 0, 0, 0, 0, n>>

\* C21: the 49 blobs of the source carry the configuration numbers 18 to 66
\* in list order, each one greater than the one before, and the batch
\* passed to store_validator_changes carries the same numbers in the same
\* order: ascending, without a gap or a repeated number.
C21_ConsecutiveNumbers ==
    \A c \in DOMAIN calls :
        (/\ calls[c].method = "store_validator_changes"
         /\ Builds[build].raw_configuration_changes = raw_configuration_changes) =>
            /\ Len(raw_configuration_changes) = 49
            /\ Len(calls[c].changes) = 49
            /\ SourceConfigurationNumbers[1] = 18
            /\ SourceConfigurationNumbers[49] = 66
            /\ \A i \in 1..48 :
                SourceConfigurationNumbers[i + 1] = SourceConfigurationNumbers[i] + 1
            /\ \A i \in 1..49 :
                calls[c].changes[i].configuration_number =
                    U64Bytes(SourceConfigurationNumbers[i])

\* the staking call was made with the blobs of the source: its first request
\* is numbered 18, its last 66
C21_Witness ==
    /\ Builds[build].raw_configuration_changes = raw_configuration_changes
    /\ calls # <<>>
    /\ calls[1].method = "store_validator_changes"
    /\ ~calls[1].reverted
    /\ calls[1].changes[1].configuration_number = U64Bytes(18)
    /\ calls[1].changes[49].configuration_number = U64Bytes(66)

\* C22: for a string without a leading 0x, parse_logs on the string and on
\* the string with 0x put in front give the same outcome: the same one raw
\* log, with the same data and the one topic, or an error both times.
C22_PrefixMakesNoDifference ==
    (/\ plain_logs # NotParsed
     /\ prefixed_logs # NotParsed
     /\ ~(Len(hex_text) >= 2 /\ SubSeq(hex_text, 1, 2) = "0x")) =>
        /\ plain_logs.ok = prefixed_logs.ok
        /\ plain_logs.ok =>
              /\ Len(plain_logs.value) = 1
              /\ plain_logs.value = prefixed_logs.value
              /\ plain_logs.value[1].topics = <<NewStakingChangeRequest_signature>>
        /\ plain_logs.ok = WellFormedHex(hex_text)

\* a string of both cases of digits gave the same two bytes both ways
C22_Witness ==
    /\ hex_text = "a0F1"
    /\ plain_logs.ok
    /\ prefixed_logs.ok
    /\ plain_logs.value[1].data = <<160, 241>>
    /\ prefixed_logs.value[1].data = <<160, 241>>

====
